---------------------------- MODULE Spec2Model ----------------------------
(***************************************************************************)
(* A model of the goal-tracker bot: the daily plan orchestrator            *)
(* (generateAndSendDailyPlan), the task parser, the check_task toggle      *)
(* handler, the goal listing / delete commands, the /addgoal and /addmany  *)
(* conversation, the 6 AM scheduler and the reminder scheduler.            *)
(*                                                                         *)
(* The repository holds two revisions of the bot: src/bot.js (plain text   *)
(* plans, /delete N) and src/unnamed/part_000 (carry-over, parsed tasks,   *)
(* check boxes).  The variable impl says which of the two is running.      *)
(*                                                                         *)
(* Texts are sequences of characters; a character is a one-letter string,  *)
(* except the line feed and the carriage return, written LF and CR.        *)
(***************************************************************************)
EXTENDS Integers, Sequences, FiniteSets, TLC

VARIABLES
    text,       \* parser harness: the generated text handed to the parser
    parsed,     \* parser harness: the task list the parser returned
    pdone,      \* parser harness: the parser has run
    impl,       \* the revision running: "bot" (src/bot.js) or "part" (part_000)
    hostOff,    \* UTC offset (hours) of the host process's local time zone
    dbOff,      \* UTC offset (hours) of the store session (CURRENT_DATE)
    now,        \* the current instant, in hours since day 0, 00:00 UTC
    users,      \* table users: a set of rows [id, chat_id]
    goals,      \* table goals: rows in insertion order
    daily,      \* table daily_activities: rows ordered by (user, date)
    procs,      \* the handler invocations in flight, one per slot
    events,     \* the number of events (commands, clicks, firings) taken
    message,    \* plan message harness: the text of the message in the chat
    stored,     \* plan message harness: the tasks column of today's record
    keyboard,   \* plan message harness: the inline keyboard of the message
    taps,       \* plan message harness: the number of toggles done on it
    userStates  \* the userStates map: the pending conversation of each chat

parserVars == <<text, parsed, pdone>>
viewVars   == <<message, stored, keyboard, taps>>
envVars    == <<impl, hostOff, dbOff>>
storeVars  == <<users, goals, daily>>

vars == <<text, parsed, pdone, impl, hostOff, dbOff, now, users, goals, daily,
          procs, events, message, stored, keyboard, taps, userStates>>

---------------------------------------------------------------------------
(* Bounds *)

\* longest enumerated parser input (characters)
MaxLen == 5

\* the clock runs over the days 1..MaxDay
MaxDay == 2

\* handler invocations that can be in flight at once
MaxInFlight == 2

\* the ordinals a check_task button can carry: 1..MaxOrdinal
MaxOrdinal == 2

\* the events (commands, button clicks, scheduler firings) of a run
MaxEvents == 3

---------------------------------------------------------------------------
(* Characters and texts *)

LF == "LF"
CR == "CR"

\* \d of the regular expression
Digits == {"0", "1", "2", "3", "4", "5", "6", "7", "8", "9"}

\* \s of the regular expression and the characters String.trim removes
Whitespace == {" ", "TAB", CR, LF}

\* the characters "." of the regular expression does not match
LineTerminators == {LF, CR}

\* the class [\.\)\:\s] that must follow the digits
Separators == {".", ")", ":"} \cup Whitespace

SetMin(S) == CHOOSE x \in S : \A y \in S : x <= y
SetMax(S) == CHOOSE x \in S : \A y \in S : x >= y

\* text.split('\n')
RECURSIVE SplitLines(_)
SplitLines(s) ==
    IF \A i \in 1..Len(s) : s[i] # LF
    THEN <<s>>
    ELSE LET i == SetMin({j \in 1..Len(s) : s[j] = LF})
         IN  <<SubSeq(s, 1, i - 1)>> \o SplitLines(SubSeq(s, i + 1, Len(s)))

\* line.replace(/\*/g, '')
RemoveStars(line) == SelectSeq(line, LAMBDA c : c # "*")

\* String.prototype.trim
Trim(s) ==
    LET keep == {i \in 1..Len(s) : s[i] \notin Whitespace}
    IN  IF keep = {} THEN <<>> ELSE SubSeq(s, SetMin(keep), SetMax(keep))

\* const cleanLine = line.replace(/\*/g, '').trim()
CleanLine(line) == Trim(RemoveStars(line))

\* ^(\d+) : the length of the leading run of digits (greedy)
DigitRun(s) == SetMax({n \in 0..Len(s) : \A i \in 1..n : s[i] \in Digits})

\* whether /^(\d+)[\.\)\:\s]\s*(.*)/ matches: the run of digits cannot be
\* shortened to make the class match, since the character after a shorter
\* run is a digit
LineMatches(cl) ==
    LET n == DigitRun(cl)
    IN  n >= 1 /\ Len(cl) > n /\ cl[n + 1] \in Separators

\* match[1]
MatchDigits(cl) == SubSeq(cl, 1, DigitRun(cl))

\* match[2]: after the separator, \s* skips white space, then (.*) takes
\* every character up to the first line terminator
MatchRest(cl) ==
    LET n     == DigitRun(cl)
        nonWs == {i \in (n + 2)..Len(cl) : cl[i] \notin Whitespace}
        from  == IF nonWs = {} THEN Len(cl) + 1 ELSE SetMin(nonWs)
        terms == {i \in from..Len(cl) : cl[i] \in LineTerminators}
        to    == IF terms = {} THEN Len(cl) ELSE SetMin(terms) - 1
    IN  SubSeq(cl, from, to)

DigitVal(c) ==
    CASE c = "0" -> 0 [] c = "1" -> 1 [] c = "2" -> 2 [] c = "3" -> 3
      [] c = "4" -> 4 [] c = "5" -> 5 [] c = "6" -> 6 [] c = "7" -> 7
      [] c = "8" -> 8 [] c = "9" -> 9

\* parseInt(match[1]) of a string of decimal digits
RECURSIVE ParseInt(_)
ParseInt(ds) ==
    IF ds = <<>> THEN 0
    ELSE 10 * ParseInt(SubSeq(ds, 1, Len(ds) - 1)) + DigitVal(ds[Len(ds)])

\* the body of lines.forEach: the tasks one line pushes onto tasksArray
LineTasks(line) ==
    LET cl == CleanLine(line)
    IN  IF LineMatches(cl)
        THEN << [id   |-> ParseInt(MatchDigits(cl)),
                 text |-> Trim(MatchRest(cl)),
                 done |-> FALSE] >>
        ELSE <<>>

RECURSIVE ParseLinesNewestFirst(_)
\* a loop that puts each task before the tasks of the earlier lines
ParseLinesNewestFirst(lines) ==
    IF lines = <<>> THEN <<>>
    ELSE ParseLinesNewestFirst(Tail(lines)) \o LineTasks(Head(lines))

RECURSIVE ParseLines(_)
ParseLines(lines) ==
    IF lines = <<>> THEN <<>>
    ELSE LineTasks(Head(lines)) \o ParseLines(Tail(lines))

\* step 5 of generateAndSendDailyPlan: text -> tasksArray
ParseTasks(t) == ParseLines(SplitLines(t))

---------------------------------------------------------------------------
(* Dates *)

\* the calendar day (days since day 0) of an hour count
DateOf(h) == h \div 24

\* new Date().toLocaleString("en-US", {timeZone: "Africa/Lagos"}): the wall
\* clock of Africa/Lagos, which is UTC+1 all year
LagosWall(t) == t + 1

\* yesterdayStr: the Lagos wall clock string is parsed by new Date(...) as a
\* time of the host's zone, setDate(getDate() - 1) goes back one local day,
\* and toISOString().split('T')[0] is the UTC date of that instant
YesterdayStr(t, off) == DateOf(LagosWall(t) - 24 - off)

\* CURRENT_DATE of the store session
CurrentDate(t, off) == DateOf(t + off)

\* the hours of the day (UTC) the clock stops at: 05:00 is 6 AM in Lagos,
\* 23:00 is midnight in Lagos
SampleHours == {5, 23}

Instants == {24 * d + h : d \in 1..MaxDay, h \in SampleHours}

---------------------------------------------------------------------------
(* The store *)

Null == "null"

\* a SELECT without the date condition
SelectDailyAnyDate(tbl, u, d) ==
    SelectSeq(tbl, LAMBDA r : r.user_id = u)

\* SELECT ... FROM daily_activities WHERE user_id = $1 AND activity_date = $2
SelectDaily(tbl, u, d) ==
    SelectSeq(tbl, LAMBDA r : r.user_id = u /\ r.activity_date = d)

\* the ids and texts of a task list, position by position
TaskShape(tasks) ==
    [i \in DOMAIN tasks |-> [id |-> tasks[i].id, text |-> tasks[i].text]]

\* the ordinals of a task list
TaskIds(tasks) == {tasks[i].id : i \in DOMAIN tasks}

\* a row as the part_000 upsert writes it (tasksNull: the tasks column is
\* NULL, as in a row bot.js inserted).  par, clicks, pure and seq are
\* history fields: par[k] is the parity of the check_task updates for
\* ordinal k applied since the last upsert, clicks counts those updates (2
\* stands for "2 or more"), pure says that no click update carried a task
\* list read before the last upsert or under another date, seq that every
\* click update was applied to the state it had read
NewPlanRow(u, d, content, tasks) ==
    [user_id |-> u, activity_date |-> d, content |-> content, tasks |-> tasks,
     tasksNull |-> FALSE,
     par |-> [k \in TaskIds(tasks) |-> FALSE],
     clicks |-> 0, pure |-> TRUE, seq |-> TRUE]

\* a table is a bag of rows: the model keeps it ordered by (user, date), a
\* new row going behind the rows of its own key
InsertRow(tbl, row) ==
    LET before == SelectSeq(tbl, LAMBDA r :
                     \/ r.user_id < row.user_id
                     \/ (r.user_id = row.user_id
                         /\ r.activity_date <= row.activity_date))
        after  == SelectSeq(tbl, LAMBDA r :
                     \/ r.user_id > row.user_id
                     \/ (r.user_id = row.user_id
                         /\ r.activity_date > row.activity_date))
    IN  before \o <<row>> \o after

Bump(n) == IF n >= 2 THEN 2 ELSE n + 1

\* an upsert that skips a plan without tasks
UpsertPlanSkippingEmpty(tbl, u, d, content, tasks) ==
    IF tasks = <<>> THEN tbl
    ELSE IF \E i \in DOMAIN tbl : tbl[i].user_id = u /\ tbl[i].activity_date = d
    THEN [i \in DOMAIN tbl |->
            IF tbl[i].user_id = u /\ tbl[i].activity_date = d
            THEN NewPlanRow(u, d, content, tasks)
            ELSE tbl[i]]
    ELSE InsertRow(tbl, NewPlanRow(u, d, content, tasks))

\* an upsert whose DO UPDATE sets the content only
UpsertPlanKeepingTasks(tbl, u, d, content, tasks) ==
    IF \E i \in DOMAIN tbl : tbl[i].user_id = u /\ tbl[i].activity_date = d
    THEN [i \in DOMAIN tbl |->
            IF tbl[i].user_id = u /\ tbl[i].activity_date = d
            THEN [tbl[i] EXCEPT !.content = content]
            ELSE tbl[i]]
    ELSE InsertRow(tbl, NewPlanRow(u, d, content, tasks))

\* an INSERT without the ON CONFLICT clause on a table without the unique
\* key: what the uniqueness of (user, date) rests on
UpsertPlanInsertOnly(tbl, u, d, content, tasks) ==
    InsertRow(tbl, NewPlanRow(u, d, content, tasks))

\* INSERT INTO daily_activities (user_id, content, tasks, activity_date)
\* VALUES ($1, $2, $3, CURRENT_DATE) ON CONFLICT (user_id, activity_date)
\* DO UPDATE SET content = EXCLUDED.content, tasks = EXCLUDED.tasks
UpsertPlan(tbl, u, d, content, tasks) ==
    IF \E i \in DOMAIN tbl : tbl[i].user_id = u /\ tbl[i].activity_date = d
    THEN [i \in DOMAIN tbl |->
            IF tbl[i].user_id = u /\ tbl[i].activity_date = d
            THEN NewPlanRow(u, d, content, tasks)
            ELSE tbl[i]]
    ELSE InsertRow(tbl, NewPlanRow(u, d, content, tasks))

\* bot.js: INSERT INTO daily_activities (user_id, content) VALUES ($1, $2)
\* ON CONFLICT (user_id, activity_date) DO UPDATE SET content = $2
\* (activity_date takes the column default, the current date; tasks is not
\* written)
UpsertContent(tbl, u, d, content) ==
    IF \E i \in DOMAIN tbl : tbl[i].user_id = u /\ tbl[i].activity_date = d
    THEN [i \in DOMAIN tbl |->
            IF tbl[i].user_id = u /\ tbl[i].activity_date = d
            THEN [tbl[i] EXCEPT !.content = content]
            ELSE tbl[i]]
    ELSE InsertRow(tbl, [NewPlanRow(u, d, content, <<>>)
                            EXCEPT !.tasksNull = TRUE])

\* a toggle that drops the task instead of flipping its flag
ToggleTasksDropping(tasks, k) ==
    SelectSeq(tasks, LAMBDA t : t.id # k)

\* a toggle that marks the task done instead of flipping its flag
ToggleTasksSetDone(tasks, k) ==
    [i \in DOMAIN tasks |->
        IF tasks[i].id = k THEN [tasks[i] EXCEPT !.done = TRUE] ELSE tasks[i]]

\* tasks.map(t => { if (t.id === taskNum) { t.done = !t.done; ... } })
ToggleTasks(tasks, k) ==
    [i \in DOMAIN tasks |->
        IF tasks[i].id = k THEN [tasks[i] EXCEPT !.done = ~@] ELSE tasks[i]]

\* a handler without the taskFound test
TaskFoundAlways(tasks, k) == TRUE

\* taskFound
TaskFound(tasks, k) == \E i \in DOMAIN tasks : tasks[i].id = k

\* UPDATE daily_activities SET tasks = $1
\* WHERE user_id = $2 AND activity_date = CURRENT_DATE
\* (k, stale and disturbed feed the history fields only)
UpdateTasks(tbl, u, d, tasks, k, stale, disturbed) ==
    [i \in DOMAIN tbl |->
        IF tbl[i].user_id = u /\ tbl[i].activity_date = d
        THEN [tbl[i] EXCEPT
                !.tasks  = tasks,
                !.tasksNull = FALSE,
                !.par    = [j \in DOMAIN @ |-> IF j = k THEN ~@[j] ELSE @[j]],
                !.clicks = Bump(@),
                !.pure   = @ /\ ~stale,
                !.seq    = @ /\ ~disturbed]
        ELSE tbl[i]]

\* yesterdayRes.rows[0].tasks.filter(t => !t.done).map(t => t.text), or []
UnfinishedTexts(rows) ==
    IF Len(rows) > 0 /\ ~rows[1].tasksNull
    THEN LET open == SelectSeq(rows[1].tasks, LAMBDA t : ~t.done)
         IN  [i \in DOMAIN open |-> open[i].text]
    ELSE <<>>

\* ORDER BY priority DESC, id ASC
GoalBefore(a, b) ==
    a.priority > b.priority \/ (a.priority = b.priority /\ a.id < b.id)

RECURSIVE OrderByPriority(_)
OrderByPriority(S) ==
    IF S = {} THEN <<>>
    ELSE LET m == CHOOSE x \in S : \A y \in S \ {x} : GoalBefore(x, y)
         IN  <<m>> \o OrderByPriority(S \ {m})

\* ORDER BY id ASC
RECURSIVE OrderById(_)
OrderById(S) ==
    IF S = {} THEN <<>>
    ELSE LET m == CHOOSE x \in S : \A y \in S : x.id <= y.id
         IN  <<m>> \o OrderById(S \ {m})

GoalRowsOf(tbl, u) == {tbl[i] : i \in {j \in DOMAIN tbl : tbl[j].user_id = u}}

\* SELECT description, deadline FROM goals WHERE user_id = $1
\* ORDER BY priority DESC, id ASC
SelectGoals(tbl, u) == OrderByPriority(GoalRowsOf(tbl, u))

\* SELECT id FROM users WHERE chat_id = $1
SelectUser(tbl, chat) == {r \in tbl : r.chat_id = chat}

---------------------------------------------------------------------------
(* The prompt *)

RECURSIVE JoinLines(_)
\* array.join('\n')
JoinLines(ts) ==
    IF ts = <<>> THEN <<>>
    ELSE IF Len(ts) = 1 THEN ts[1]
    ELSE ts[1] \o <<LF>> \o JoinLines(Tail(ts))

\* `- ${g.description} (Deadline: ${g.deadline})` or `- ${g.description}`
GoalLine(g) ==
    IF g.deadline # Null
    THEN <<"-", " ", g.description, " ", "(Deadline: ", g.deadline, ")">>
    ELSE <<"-", " ", g.description>>

\* the prompt of part_000: the context with the goal lines, the fixed
\* instructions, and, when there are unfinished tasks, the IMPORTANT section
\* with their texts joined by line feeds.  The fixed parts are one letter each.
BuildPrompt(goalRows, unfinishedTasks) ==
    <<"Context:">> \o JoinLines([i \in DOMAIN goalRows |-> GoalLine(goalRows[i])])
      \o <<"Instructions">>
      \o (IF Len(unfinishedTasks) > 0
          THEN <<"IMPORTANT:">> \o JoinLines(unfinishedTasks)
          ELSE <<>>)

\* the prompt of bot.js: the goal lines and the fixed instructions
BuildPromptBot(goalRows) ==
    <<"I have the following goals">>
      \o JoinLines([i \in DOMAIN goalRows |-> GoalLine(goalRows[i])])
      \o <<"Please generate">>

---------------------------------------------------------------------------
(* The control grid *)

\* if (row.length === 5) { buttons.push(row); row = []; }
RowSize == 5

\* a loop that pushes the last row without looking whether it is empty
ChunkPushingLastRow(bs) ==
    [r \in 1..(Len(bs) \div RowSize) |->
        SubSeq(bs, RowSize * (r - 1) + 1, RowSize * r)]
      \o <<SubSeq(bs, RowSize * (Len(bs) \div RowSize) + 1, Len(bs))>>

RECURSIVE Chunk(_)
\* the rows the forEach loop pushes: full rows of RowSize while they last,
\* then the rest, if any (if (row.length > 0) buttons.push(row))
Chunk(bs) ==
    IF Len(bs) = 0 THEN <<>>
    ELSE IF Len(bs) <= RowSize THEN <<bs>>
    ELSE <<SubSeq(bs, 1, RowSize)>> \o Chunk(SubSeq(bs, RowSize + 1, Len(bs)))

\* { text: `${task.id} <icon>`, callback_data: `check_task_${task.id}` }
Button(id, icon) ==
    [label |-> id, icon |-> icon, data |-> <<"check_task", id>>]

\* step 7 of generateAndSendDailyPlan: every button shows the unchecked box
PlanButtons(tasks) ==
    Chunk([i \in DOMAIN tasks |-> Button(tasks[i].id, "unchecked")])

\* the buttons the toggle handler rebuilds: the icon follows t.done
ToggleButtons(tasks) ==
    Chunk([i \in DOMAIN tasks |->
              Button(tasks[i].id,
                     IF tasks[i].done THEN "checked" ELSE "unchecked")])

---------------------------------------------------------------------------
(* The plan message *)

\* the check mark the toggle handler puts before a done task
CheckMark == "CHECK"

DigitChar(d) ==
    CASE d = 0 -> "0" [] d = 1 -> "1" [] d = 2 -> "2" [] d = 3 -> "3"
      [] d = 4 -> "4" [] d = 5 -> "5" [] d = 6 -> "6" [] d = 7 -> "7"
      [] d = 8 -> "8" [] d = 9 -> "9"

\* `${t.id}` of a non-negative integer: its decimal digits
RECURSIVE IntToDigits(_)
IntToDigits(n) ==
    IF n < 10 THEN <<DigitChar(n)>>
    ELSE IntToDigits(n \div 10) \o <<DigitChar(n % 10)>>

\* t.done ? `✅ ~${t.id}. ${t.text}~` : `${t.id}. ${t.text}` (without the \n)
TaskLine(t) ==
    IF t.done
    THEN <<CheckMark, " ", "~">> \o IntToDigits(t.id) \o <<".", " ">>
             \o t.text \o <<"~">>
    ELSE IntToDigits(t.id) \o <<".", " ">> \o t.text

\* tasks.forEach(t => { newText += ... + '\n' })
RECURSIVE TaskLines(_)
TaskLines(tasks) ==
    IF tasks = <<>> THEN <<>>
    ELSE TaskLine(Head(tasks)) \o <<LF>> \o TaskLines(Tail(tasks))

\* quote.match(/^\d+\./)
QuoteMatches(quote) ==
    LET n == DigitRun(quote)
    IN  n >= 1 /\ Len(quote) > n /\ quote[n + 1] = "."

\* the text the toggle handler hands to editMessageText: the task lines,
\* then the last line of the message it edits unless that line is numbered
NewText(tasks, messageText) ==
    LET originalLines == SplitLines(messageText)
        quote         == originalLines[Len(originalLines)]
    IN  IF QuoteMatches(quote)
        THEN TaskLines(tasks)
        ELSE TaskLines(tasks) \o <<LF>> \o quote

\* "🌞 **Here is your plan for today:**", and the carry-over warning before it
MsgHeader(carried) ==
    IF carried
    THEN <<"W", " ", LF, LF, "*", "*", "H", "*", "*">>
    ELSE <<"*", "*", "H", "*", "*">>

\* `${msgHeader}\n\n${text}`
PlanText(carried, t) == MsgHeader(carried) \o <<LF, LF>> \o t

\* query.message.text of a message sent with parse_mode 'Markdown': the
\* emphasis markers have become entities and the ends are trimmed
Delivered(s) == Trim(RemoveStars(s))

---------------------------------------------------------------------------
(* Handler invocations *)

Procs == 1..MaxInFlight

\* userStates.get(chatId) of a chat without an entry (cmd: the number of the
\* /addgoal event that made the entry, for the record)
NoState == [state |-> "idle", tempGoal |-> "", cmd |-> 0]

\* the summary of an orchestrator call that has not happened
NoCall ==
    [user |-> 0, sent |-> <<>>, genCalls |-> 0, writes |-> 0,
     failed |-> FALSE, raised |-> FALSE, zeroGoals |-> FALSE,
     truePrev |-> <<>>, overwrote |-> FALSE, noTasks |-> FALSE]

\* a free slot.  kind is the handler, pc the await it is suspended at.  The
\* fields from sent on record what the current orchestrator call has done
\* (sent: the messages it sent, genCalls: calls of model.generateContent,
\* writes: store writes); lagosDay, zeroGoals, truePrev, prevDone,
\* overwrote (the upsert met a record of its key) and metDone (that record
\* had a task marked done) record the facts of the
\* store the claims speak of; last is the record of the orchestrator call
\* that returned last; num is the N of /delete N, goalId the id a delete
\* works on, listBefore the goal listing at the arrival of /delete; attempted
\* and reminded are the chats a reminder send was issued to and resolved
\* for; hsent, writes, edits, acked and outcome record what the event
\* handler itself did; lookedUp, hasRecord, inList and found what a click
\* met in the store (its user lookup returned, a record of the current date
\* existed at its SELECT, the ordinal was in that record, taskFound);
\* readShape is the ids and texts of the task list a click read; goalText
\* is the text of /addgoal, msgText the text of a message, recv the
\* conversation state the message handler read at its start, entries the
\* goals it has still to insert and inserts the number it has inserted.
Idle ==
    [kind |-> "none", pc |-> "done", chat |-> 0, user |-> 0,
     planChat |-> 0, planUser |-> 0,
     yesterdayStr |-> 0, unfinishedTasks |-> <<>>, prompt |-> <<>>,
     genText |-> <<>>, tasksArray |-> <<>>,
     taskNum |-> 0, tasks |-> <<>>, readShape |-> <<>>, readDate |-> 0,
     stale |-> FALSE, disturbed |-> FALSE,
     rows |-> <<>>, idx |-> 0, invoked |-> <<>>,
     sent |-> <<>>, genCalls |-> 0, writes |-> 0, failed |-> FALSE,
     lagosDay |-> 0, zeroGoals |-> FALSE, truePrev |-> <<>>,
     prevDone |-> <<>>, overwrote |-> FALSE, metDone |-> FALSE,
     last |-> NoCall,
     num |-> 0, goalId |-> 0, listBefore |-> <<>>,
     goalText |-> "", cmd |-> 0, msgText |-> <<>>, recv |-> NoState,
     entries |-> <<>>, inserts |-> 0,
     attempted |-> <<>>, reminded |-> <<>>,
     hsent |-> <<>>, edits |-> 0, acked |-> FALSE, found |-> FALSE,
     inList |-> FALSE, hasRecord |-> FALSE, lookedUp |-> FALSE,
     outcome |-> "none"]

\* generateAndSendDailyPlan(chatId, userId) up to its first await.
\* part_000 sends the progress message and computes yesterdayStr (lines
\* 47-54); bot.js goes straight to the goals query (line 51).
StartPlan(r, chat, user) ==
    LET fresh == [r EXCEPT !.planChat = chat, !.planUser = user,
                           !.sent = <<>>, !.genCalls = 0, !.writes = 0,
                           !.failed = FALSE, !.zeroGoals = FALSE,
                           !.truePrev = <<>>, !.prevDone = <<>>,
                           !.unfinishedTasks = <<>>, !.overwrote = FALSE,
                           !.metDone = FALSE,
                           !.lagosDay = DateOf(LagosWall(now))]
    IN  IF impl = "part"
        THEN [fresh EXCEPT !.sent = <<"progress">>,
                           !.yesterdayStr = YesterdayStr(now, hostOff),
                           !.pc = "plan_yesterday"]
        ELSE [fresh EXCEPT !.pc = "plan_goals"]

\* for (const user of users.rows) { await generateAndSendDailyPlan(...) }
CronLoop(r) ==
    IF r.idx <= Len(r.rows)
    THEN StartPlan([r EXCEPT !.invoked = Append(@, r.rows[r.idx].id)],
                   r.rows[r.idx].chat_id, r.rows[r.idx].id)
    ELSE [r EXCEPT !.pc = "done", !.outcome = "completed"]

\* a scheduler loop that a failed call ends
ResumeLeavingOnFailure(r, raised) ==
    IF r.kind = "generate"
    THEN [r EXCEPT !.pc = "done", !.outcome = "completed",
                   !.hsent = IF raised /\ impl = "bot"
                             THEN Append(@, "errorGenerating") ELSE @]
    ELSE IF raised \/ r.last.failed
         THEN [r EXCEPT !.pc = "done",
                        !.outcome = IF impl = "part" THEN "raised"
                                    ELSE "completed"]
         ELSE IF impl = "part"
              THEN CronLoop([r EXCEPT !.idx = @ + 1])
              ELSE [r EXCEPT !.pc = "cron_delay"]

\* the caller of generateAndSendDailyPlan resumes.  /generate: the handler
\* ends (bot.js answers a raised error with a message, part_000 logs it).
\* The scheduler: part_000 goes on to the next user at once, bot.js first
\* sleeps 2 s; a raised error leaves the loop (unhandled in part_000, caught
\* and logged by the try around the loop in bot.js).
Resume(r, raised) ==
    IF r.kind = "generate"
    THEN [r EXCEPT !.pc = "done", !.outcome = "completed",
                   !.hsent = IF raised /\ impl = "bot"
                             THEN Append(@, "errorGenerating") ELSE @]
    ELSE IF raised
         THEN [r EXCEPT !.pc = "done",
                        !.outcome = IF impl = "part" THEN "raised"
                                    ELSE "completed"]
         ELSE IF impl = "part"
              THEN CronLoop([r EXCEPT !.idx = @ + 1])
              ELSE [r EXCEPT !.pc = "cron_delay"]

\* generateAndSendDailyPlan returns (or raises) to its caller
EndPlan(r, raised) ==
    Resume([r EXCEPT
              !.last = [user |-> r.planUser, sent |-> r.sent,
                        genCalls |-> r.genCalls, writes |-> r.writes,
                        failed |-> r.failed, raised |-> raised,
                        zeroGoals |-> r.zeroGoals, truePrev |-> r.truePrev,
                        overwrote |-> r.overwrote,
                        noTasks |-> (impl = "part" /\ r.genText # <<>>
                                        /\ r.tasksArray = <<>>)],
              !.planChat = 0, !.planUser = 0, !.yesterdayStr = 0,
              !.unfinishedTasks = <<>>, !.prompt = <<>>, !.genText = <<>>,
              !.tasksArray = <<>>, !.sent = <<>>, !.genCalls = 0,
              !.writes = 0, !.failed = FALSE, !.lagosDay = 0,
              !.zeroGoals = FALSE, !.truePrev = <<>>, !.prevDone = <<>>,
              !.overwrote = FALSE, !.metDone = FALSE],
           raised)

\* an orchestrator without its catch: the failure reaches the caller
FailPlanRaises(r) ==
    EndPlan([r EXCEPT !.failed = TRUE], TRUE)

\* catch (error) { console.error(...); bot.sendMessage(chatId, "... hit a
\* snag ...") }: the failure is caught and the function returns normally
FailPlan(r) ==
    EndPlan([r EXCEPT !.failed = TRUE, !.sent = Append(@, "retry")], FALSE)

\* the texts the generation provider answers with
TwoTasks  == <<"1", ".", " ", "a", LF, "2", ")", " ", "b", LF, "q">>
OneTask   == <<"*", "*", "1", ":", "*", "*", " ", "c">>
NoTasks   == <<"q">>
GenTexts  == {TwoTasks, OneTask, NoTasks}

Chats == {101, 102, 103}

\* const userStates = new Map()
NoStates == [c \in Chats |-> NoState]

\* the texts of the tasks with the given done flag in the record of user u
\* for date d, read off the table directly
TextsAt(tbl, u, d, flag) ==
    LET rowIdx == {i \in DOMAIN tbl : tbl[i].user_id = u
                                       /\ tbl[i].activity_date = d
                                       /\ ~tbl[i].tasksNull}
    IN  IF rowIdx = {} THEN <<>>
        ELSE LET ts  == tbl[SetMin(rowIdx)].tasks
                 sel == SelectSeq(ts, LAMBDA t : t.done = flag)
             IN  [i \in DOMAIN sel |-> sel[i].text]

\* a store write for user u lands while a click of u is between its SELECT
\* and its UPDATE (history only)
Disturb(r, u, byUpsert) ==
    IF r.kind = "click" /\ r.pc = "click_update" /\ r.user = u
    THEN [r EXCEPT !.disturbed = TRUE, !.stale = @ \/ byUpsert]
    ELSE r

\* no invocation has just returned.  What a returned call did stays on
\* record for one state (Return drops it) and every other step waits for
\* that: the record is history, no step reads it.
Quiet ==
    \A q \in Procs :
        procs[q].last = NoCall /\ (procs[q].pc = "done" => procs[q] = Idle)

\* an event is taken by the lowest free slot (the slots are alike)
FreeSlot(p) ==
    /\ procs[p] = Idle
    /\ \A q \in Procs : q < p => procs[q] # Idle

\* the record of a returned call is dropped; a handler that has ended frees
\* its slot
Return(p) ==
    /\ procs[p].last # NoCall \/ (procs[p].pc = "done" /\ procs[p] # Idle)
    /\ procs' = [procs EXCEPT ![p] =
                    IF procs[p].pc = "done" THEN Idle
                    ELSE [procs[p] EXCEPT !.last = NoCall]]
    /\ UNCHANGED <<parserVars, viewVars, userStates, envVars, now, storeVars, events>>

---------------------------------------------------------------------------
(* /generate and generateAndSendDailyPlan *)

\* bot.onText(/\/generate/): the handler starts and awaits the user lookup
GenerateCommand(p, c) ==
    /\ Quiet /\ FreeSlot(p) /\ events < MaxEvents
    /\ procs' = [procs EXCEPT ![p] =
                    [Idle EXCEPT !.kind = "generate", !.chat = c,
                                 !.pc = "gen_user", !.outcome = "running"]]
    /\ events' = events + 1
    /\ UNCHANGED <<parserVars, viewVars, userStates, envVars, now, storeVars>>

\* the user lookup of /generate returns: call the orchestrator, or answer
\* "please /start first"; a failed lookup is caught by the handler
GenUser(p) ==
    LET r == procs[p] IN
    /\ r.pc = "gen_user"
    /\ Quiet
    /\ \E ok \in BOOLEAN :
         procs' = [procs EXCEPT ![p] =
            IF ~ok
            THEN [r EXCEPT !.pc = "done", !.outcome = "completed",
                           !.hsent = IF impl = "bot"
                                     THEN Append(@, "errorGenerating") ELSE @]
            ELSE IF SelectUser(users, r.chat) # {}
                 THEN LET u == CHOOSE x \in SelectUser(users, r.chat) : TRUE
                      IN  StartPlan([r EXCEPT !.user = u.id], r.chat, u.id)
                 ELSE [r EXCEPT !.pc = "done", !.outcome = "completed",
                                !.hsent = Append(@, "pleaseStart")]]
    /\ UNCHANGED <<parserVars, viewVars, userStates, envVars, now, storeVars, events>>

\* part_000 lines 56-64: the query for yesterday's record returns
PlanYesterday(p) ==
    LET r == procs[p] IN
    /\ r.pc = "plan_yesterday"
    /\ Quiet
    /\ \E ok \in BOOLEAN :
         procs' = [procs EXCEPT ![p] =
            IF ~ok THEN FailPlan(r)
            ELSE [r EXCEPT
                    !.unfinishedTasks =
                        UnfinishedTexts(SelectDaily(daily, r.planUser,
                                                    r.yesterdayStr)),
                    !.truePrev = TextsAt(daily, r.planUser,
                                         r.lagosDay - 1, FALSE),
                    !.prevDone = TextsAt(daily, r.planUser,
                                         r.lagosDay - 1, TRUE),
                    !.pc = "plan_goals"]]
    /\ UNCHANGED <<parserVars, viewVars, userStates, envVars, now, storeVars, events>>

\* the goals query returns: the "no active goals" exit, or the prompt is
\* built and handed to model.generateContent
PlanGoals(p) ==
    LET r        == procs[p]
        goalRows == SelectGoals(goals, r.planUser)
        seen     == [r EXCEPT !.zeroGoals = (GoalRowsOf(goals, r.planUser) = {})]
    IN
    /\ r.pc = "plan_goals"
    /\ Quiet
    /\ \E ok \in BOOLEAN :
         procs' = [procs EXCEPT ![p] =
            IF ~ok THEN FailPlan(r)
            ELSE IF Len(goalRows) = 0 /\ Len(r.unfinishedTasks) = 0
                 THEN EndPlan([seen EXCEPT !.sent = Append(@, "noGoals")],
                              FALSE)
                 ELSE [seen EXCEPT
                         !.sent = IF impl = "bot" THEN Append(@, "progress")
                                  ELSE @,
                         !.prompt = IF impl = "part"
                                    THEN BuildPrompt(goalRows,
                                                     r.unfinishedTasks)
                                    ELSE BuildPromptBot(goalRows),
                         !.genCalls = @ + 1,
                         !.pc = "plan_generate"]]
    /\ UNCHANGED <<parserVars, viewVars, userStates, envVars, now, storeVars, events>>

\* model.generateContent returns a text (or fails); part_000 parses it; the
\* upsert is issued
PlanGenerate(p) ==
    LET r == procs[p] IN
    /\ r.pc = "plan_generate"
    /\ Quiet
    /\ \E ok \in BOOLEAN, t \in GenTexts :
         procs' = [procs EXCEPT ![p] =
            IF ~ok THEN FailPlan(r)
            ELSE [r EXCEPT !.genText = t,
                           !.tasksArray = IF impl = "part" THEN ParseTasks(t)
                                          ELSE <<>>,
                           !.pc = "plan_upsert"]]
    /\ UNCHANGED <<parserVars, viewVars, userStates, envVars, now, storeVars, events>>

\* the upsert runs (or fails).  bot.js then sends the plan without awaiting
\* and returns; part_000 builds the buttons and awaits the send.
PlanUpsert(p) ==
    LET r     == procs[p]
        today == CurrentDate(now, dbOff)
        met   == Len(SelectDaily(daily, r.planUser, today)) > 0
        done  == TextsAt(daily, r.planUser, today, TRUE) # <<>>
    IN
    /\ r.pc = "plan_upsert"
    /\ Quiet
    /\ \E ok \in BOOLEAN :
         IF ~ok
         THEN /\ procs' = [procs EXCEPT ![p] = FailPlan(r)]
              /\ UNCHANGED daily
         ELSE /\ daily' = IF impl = "part"
                          THEN UpsertPlan(daily, r.planUser, today,
                                          r.genText, r.tasksArray)
                          ELSE UpsertContent(daily, r.planUser, today,
                                             r.genText)
              /\ procs' = [q \in Procs |->
                    IF q # p THEN Disturb(procs[q], r.planUser, TRUE)
                    ELSE IF impl = "part"
                         THEN [r EXCEPT !.writes = @ + 1, !.overwrote = met,
                                        !.metDone = done,
                                        !.pc = "plan_send"]
                         ELSE EndPlan([r EXCEPT !.writes = @ + 1,
                                                !.overwrote = met,
                                                !.sent = Append(@, "plan")],
                                      FALSE)]
    /\ UNCHANGED <<parserVars, viewVars, userStates, envVars, now, users, goals, events>>

\* part_000 lines 147-150: the awaited send of the plan resolves or rejects
PlanSend(p) ==
    LET r == procs[p] IN
    /\ r.pc = "plan_send"
    /\ Quiet
    /\ \E ok \in BOOLEAN :
         procs' = [procs EXCEPT ![p] =
            IF ok THEN EndPlan([r EXCEPT !.sent = Append(@, "plan")], FALSE)
            ELSE FailPlan(r)]
    /\ UNCHANGED <<parserVars, viewVars, userStates, envVars, now, storeVars, events>>

---------------------------------------------------------------------------
(* The check_task button *)

\* bot.on('callback_query') with data check_task_<k>: the handler starts and
\* awaits the user lookup (only part_000 has the handler)
Click(p, c, k) ==
    /\ impl = "part"
    /\ Quiet /\ FreeSlot(p) /\ events < MaxEvents
    /\ procs' = [procs EXCEPT ![p] =
                    [Idle EXCEPT !.kind = "click", !.chat = c, !.taskNum = k,
                                 !.pc = "click_user", !.outcome = "running"]]
    /\ events' = events + 1
    /\ UNCHANGED <<parserVars, viewVars, userStates, envVars, now, storeVars>>

\* lines 165-178: the user lookup returns.  It is outside every try: a
\* failure leaves the handler as an unhandled rejection.  An unknown chat
\* returns without answering the query.
ClickUser(p) ==
    LET r == procs[p] IN
    /\ r.pc = "click_user"
    /\ Quiet
    /\ \E ok \in BOOLEAN :
         procs' = [procs EXCEPT ![p] =
            IF ~ok
            THEN [r EXCEPT !.pc = "done", !.outcome = "raised"]
            ELSE IF SelectUser(users, r.chat) = {}
                 THEN [r EXCEPT !.pc = "done", !.outcome = "completed",
                                !.lookedUp = TRUE]
                 ELSE LET u == CHOOSE x \in SelectUser(users, r.chat) : TRUE
                      IN  [r EXCEPT !.user = u.id, !.lookedUp = TRUE,
                                    !.pc = "click_select"]]
    /\ UNCHANGED <<parserVars, viewVars, userStates, envVars, now, storeVars, events>>

\* lines 175-198: the SELECT of today's tasks returns; the task is toggled
\* in the list read and, if found, the UPDATE is issued.  Every other path
\* falls through to bot.answerCallbackQuery.
ClickSelect(p) ==
    LET r     == procs[p]
        today == CurrentDate(now, dbOff)
        rows  == SelectDaily(daily, r.user, today)
        tasks == IF rows[1].tasksNull THEN <<>> ELSE rows[1].tasks
        inList == \E i \in DOMAIN daily :
                     /\ daily[i].user_id = r.user
                     /\ daily[i].activity_date = today
                     /\ ~daily[i].tasksNull
                     /\ r.taskNum \in TaskIds(daily[i].tasks)
        hasRecord == \E i \in DOMAIN daily :
                        /\ daily[i].user_id = r.user
                        /\ daily[i].activity_date = today
        answered == [r EXCEPT !.pc = "done", !.outcome = "completed",
                              !.acked = TRUE, !.inList = inList,
                              !.hasRecord = hasRecord]
    IN
    /\ r.pc = "click_select"
    /\ Quiet
    /\ \E ok \in BOOLEAN :
         procs' = [procs EXCEPT ![p] =
            IF ~ok THEN [answered EXCEPT !.failed = TRUE]
            ELSE IF Len(rows) = 0 THEN answered
            ELSE IF TaskFound(tasks, r.taskNum)
                 THEN [r EXCEPT !.tasks = ToggleTasks(tasks, r.taskNum),
                                !.readShape = TaskShape(tasks),
                                !.found = TRUE, !.inList = inList,
                                !.hasRecord = hasRecord,
                                !.readDate = today,
                                !.pc = "click_update"]
                 ELSE answered]
    /\ UNCHANGED <<parserVars, viewVars, userStates, envVars, now, storeVars, events>>

\* lines 195-226: the UPDATE runs against the current date's record (or
\* fails and is caught); the text and the buttons are rebuilt and the edit
\* of the message is issued
ClickUpdate(p) ==
    LET r     == procs[p]
        today == CurrentDate(now, dbOff)
        stale == r.stale \/ r.readDate # today
    IN
    /\ r.pc = "click_update"
    /\ Quiet
    /\ \E ok \in BOOLEAN :
         IF ~ok
         THEN /\ procs' = [procs EXCEPT ![p] =
                    [r EXCEPT !.pc = "done", !.outcome = "completed",
                              !.acked = TRUE, !.failed = TRUE,
                              !.tasks = <<>>, !.readShape = <<>>]]
              /\ UNCHANGED daily
         ELSE /\ daily' = UpdateTasks(daily, r.user, today, r.tasks,
                                      r.taskNum, stale, stale \/ r.disturbed)
              /\ procs' = [q \in Procs |->
                    IF q # p THEN Disturb(procs[q], r.user, FALSE)
                    ELSE [r EXCEPT !.writes = @ + 1, !.pc = "click_edit"]]
    /\ UNCHANGED <<parserVars, viewVars, userStates, envVars, now, users, goals, events>>

\* bot.editMessageText resolves or rejects (caught); then the query is
\* answered
ClickEdit(p) ==
    LET r == procs[p] IN
    /\ r.pc = "click_edit"
    /\ Quiet
    /\ \E ok \in BOOLEAN :
         procs' = [procs EXCEPT ![p] =
            [r EXCEPT !.pc = "done", !.outcome = "completed",
                      !.acked = TRUE, !.tasks = <<>>, !.readShape = <<>>,
                      !.edits = IF ok THEN @ + 1 ELSE @,
                      !.failed = ~ok]]
    /\ UNCHANGED <<parserVars, viewVars, userStates, envVars, now, storeVars, events>>

---------------------------------------------------------------------------
(* The 6 AM scheduler *)

\* cron.schedule('0 6 * * *'): 6 AM of Africa/Lagos in part_000 (the
\* timezone option), 6 AM of the host's zone in bot.js (no option; of the
\* instants of the model that is 05:00 UTC on a host at UTC+1)
CronTime ==
    IF impl = "part" THEN LagosWall(now) % 24 = 6
    ELSE (now + hostOff) % 24 = 6

\* the orders SELECT ... FROM users (no ORDER BY) can return the rows in
UserOrders ==
    {s \in [1..Cardinality(users) -> users] :
        \A i, j \in DOMAIN s : i # j => s[i] # s[j]}

\* the scheduler fires: the callback starts and awaits the user listing
CronFire(p) ==
    /\ CronTime
    /\ Quiet /\ FreeSlot(p) /\ events < MaxEvents
    /\ procs' = [procs EXCEPT ![p] =
                    [Idle EXCEPT !.kind = "cron", !.pc = "cron_users",
                                 !.outcome = "running"]]
    /\ events' = events + 1
    /\ UNCHANGED <<parserVars, viewVars, userStates, envVars, now, storeVars>>

\* the user listing returns and the loop starts.  part_000 has no try
\* around it (a failure is an unhandled rejection); bot.js catches and logs.
CronUsers(p) ==
    LET r == procs[p] IN
    /\ r.pc = "cron_users"
    /\ Quiet
    /\ \E ok \in BOOLEAN, order \in UserOrders :
         procs' = [procs EXCEPT ![p] =
            IF ~ok
            THEN [r EXCEPT !.pc = "done", !.failed = TRUE,
                           !.outcome = IF impl = "part" THEN "raised"
                                       ELSE "completed"]
            ELSE CronLoop([r EXCEPT !.rows = order, !.idx = 1])]
    /\ UNCHANGED <<parserVars, viewVars, userStates, envVars, now, storeVars, events>>

\* bot.js line 420: the 2 s pause after a user ends; the loop goes on
CronDelay(p) ==
    LET r == procs[p] IN
    /\ r.pc = "cron_delay"
    /\ Quiet
    /\ procs' = [procs EXCEPT ![p] = CronLoop([r EXCEPT !.idx = @ + 1])]
    /\ UNCHANGED <<parserVars, viewVars, userStates, envVars, now, storeVars, events>>

---------------------------------------------------------------------------
(* /mygoals, /delete N and the delete_goal button *)

\* the rows of FROM goals g JOIN users u ON g.user_id = u.id
\* WHERE u.chat_id = $1
GoalsOfChat(us, tbl, c) ==
    {tbl[i] : i \in {j \in DOMAIN tbl :
                        \E u \in us : u.chat_id = c /\ u.id = tbl[j].user_id}}

\* the query of /mygoals: bot.js orders by priority DESC, id ASC; part_000
\* by id ASC
SelectListing(us, tbl, c) ==
    IF impl = "bot" THEN OrderByPriority(GoalsOfChat(us, tbl, c))
    ELSE OrderById(GoalsOfChat(us, tbl, c))

\* the descriptions of a list of goal rows
GoalTexts(rows) == [i \in DOMAIN rows |-> rows[i].description]

\* DELETE FROM goals WHERE id = $1
DeleteGoal(tbl, id) == SelectSeq(tbl, LAMBDA g : g.id # id)

\* bot.onText(/\/mygoals/): the handler starts and awaits the listing query
MyGoalsCommand(p, c) ==
    /\ Quiet /\ FreeSlot(p) /\ events < MaxEvents
    /\ procs' = [procs EXCEPT ![p] =
                    [Idle EXCEPT !.kind = "mygoals", !.chat = c,
                                 !.pc = "mygoals_select",
                                 !.outcome = "running"]]
    /\ events' = events + 1
    /\ UNCHANGED <<parserVars, viewVars, userStates, envVars, now, storeVars>>

\* the listing query returns.  bot.js sends one message with the numbered
\* list; part_000 sends a header and then one message with a delete button
\* per goal, awaiting each
MyGoalsSelect(p) ==
    LET r    == procs[p]
        rows == SelectListing(users, goals, r.chat)
        over == [r EXCEPT !.pc = "done", !.outcome = "completed"]
    IN
    /\ r.pc = "mygoals_select"
    /\ Quiet
    /\ \E ok \in BOOLEAN :
         procs' = [procs EXCEPT ![p] =
            IF ~ok
            THEN [over EXCEPT !.failed = TRUE,
                              !.hsent = Append(@, "errorFetching")]
            ELSE IF Len(rows) = 0
                 THEN [over EXCEPT !.hsent = Append(@, "noGoalsSet")]
            ELSE IF impl = "bot"
                 THEN [over EXCEPT !.rows = rows,
                                   !.hsent = Append(@, "goalList")]
                 ELSE [r EXCEPT !.rows = rows, !.idx = 1,
                                !.hsent = Append(@, "header"),
                                !.pc = "mygoals_send"]]
    /\ UNCHANGED <<parserVars, viewVars, userStates, envVars, now, storeVars, events>>

\* part_000 lines 340-347: the awaited send of one goal message resolves or
\* rejects (caught: "Error fetching goals")
MyGoalsSend(p) ==
    LET r == procs[p] IN
    /\ r.pc = "mygoals_send"
    /\ Quiet
    /\ \E ok \in BOOLEAN :
         procs' = [procs EXCEPT ![p] =
            IF ~ok
            THEN [r EXCEPT !.pc = "done", !.outcome = "completed",
                           !.failed = TRUE,
                           !.hsent = Append(@, "errorFetching")]
            ELSE IF r.idx < Len(r.rows)
                 THEN [r EXCEPT !.idx = @ + 1, !.hsent = Append(@, "goal")]
                 ELSE [r EXCEPT !.pc = "done", !.outcome = "completed",
                                !.hsent = Append(@, "goal")]]
    /\ UNCHANGED <<parserVars, viewVars, userStates, envVars, now, storeVars, events>>

\* the numbers a /delete command can carry (\d+)
DeleteNumbers == 0..4

\* bot.onText(/\/delete (\d+)/).  bot.js awaits the user lookup; part_000
\* answers with the tip and is done.  listBefore is what /mygoals lists for
\* the chat at this moment (priority descending, then id).
DeleteCommand(p, c, n) ==
    /\ Quiet /\ FreeSlot(p) /\ events < MaxEvents
    /\ procs' = [procs EXCEPT ![p] =
          LET r == [Idle EXCEPT
                      !.kind = "delete", !.chat = c, !.num = n,
                      !.listBefore = GoalTexts(OrderByPriority(
                                        GoalsOfChat(users, goals, c))),
                      !.outcome = "running"]
          IN  IF impl = "bot" THEN [r EXCEPT !.pc = "delete_user"]
              ELSE [r EXCEPT !.pc = "done", !.outcome = "completed",
                             !.hsent = <<"tip">>]]
    /\ events' = events + 1
    /\ UNCHANGED <<parserVars, viewVars, userStates, envVars, now, storeVars>>

\* bot.js lines 322-328: the user lookup of /delete returns
DeleteUser(p) ==
    LET r    == procs[p]
        over == [r EXCEPT !.pc = "done", !.outcome = "completed"]
    IN
    /\ r.pc = "delete_user"
    /\ Quiet
    /\ \E ok \in BOOLEAN :
         procs' = [procs EXCEPT ![p] =
            IF ~ok
            THEN [over EXCEPT !.failed = TRUE,
                              !.hsent = Append(@, "errorDeleting")]
            ELSE IF SelectUser(users, r.chat) = {}
                 THEN [over EXCEPT !.hsent = Append(@, "pleaseStart")]
                 ELSE LET u == CHOOSE x \in SelectUser(users, r.chat) : TRUE
                      IN  [r EXCEPT !.user = u.id, !.pc = "delete_select"]]
    /\ UNCHANGED <<parserVars, viewVars, userStates, envVars, now, storeVars, events>>

\* bot.js lines 330-340: the goals of the user ordered by id return; the
\* number is validated and the DELETE of the N-th row is issued
DeleteSelect(p) ==
    LET r    == procs[p]
        rows == OrderById(GoalRowsOf(goals, r.user))
        over == [r EXCEPT !.pc = "done", !.outcome = "completed"]
    IN
    /\ r.pc = "delete_select"
    /\ Quiet
    /\ \E ok \in BOOLEAN :
         procs' = [procs EXCEPT ![p] =
            IF ~ok
            THEN [over EXCEPT !.failed = TRUE,
                              !.hsent = Append(@, "errorDeleting")]
            ELSE IF r.num < 1 \/ r.num > Len(rows)
                 THEN [over EXCEPT !.hsent = Append(@, "invalidNumber")]
                 ELSE [r EXCEPT !.goalId = rows[r.num].id,
                                !.pc = "delete_delete"]]
    /\ UNCHANGED <<parserVars, viewVars, userStates, envVars, now, storeVars, events>>

\* bot.js lines 340-345: the DELETE runs (or fails) and the user is told
DeleteDelete(p) ==
    LET r    == procs[p]
        over == [r EXCEPT !.pc = "done", !.outcome = "completed"]
    IN
    /\ r.pc = "delete_delete"
    /\ Quiet
    /\ \E ok \in BOOLEAN :
         IF ~ok
         THEN /\ procs' = [procs EXCEPT ![p] =
                    [over EXCEPT !.failed = TRUE,
                                 !.hsent = Append(@, "errorDeleting")]]
              /\ UNCHANGED goals
         ELSE /\ goals' = DeleteGoal(goals, r.goalId)
              /\ procs' = [procs EXCEPT ![p] =
                    [over EXCEPT !.writes = @ + 1,
                                 !.hsent = Append(@, "deleted")]]
    /\ UNCHANGED <<parserVars, viewVars, userStates, envVars, now, users, daily, events>>

\* the goal ids a delete_goal button can carry
ButtonGoalIds == 1..5

\* bot.on('callback_query') with data delete_goal_<id> (part_000): the
\* handler starts and awaits the user lookup.  listBefore is the stored
\* goals at this moment, found says that one of them has the id.
ClickDeleteGoal(p, c, g) ==
    /\ impl = "part"
    /\ Quiet /\ FreeSlot(p) /\ events < MaxEvents
    /\ procs' = [procs EXCEPT ![p] =
                    [Idle EXCEPT !.kind = "delete_goal", !.chat = c,
                                 !.goalId = g, !.pc = "dg_user",
                                 !.listBefore = GoalTexts(goals),
                                 !.found = \E i \in DOMAIN goals :
                                              goals[i].id = g,
                                 !.outcome = "running"]]
    /\ events' = events + 1
    /\ UNCHANGED <<parserVars, viewVars, userStates, envVars, now, storeVars>>

\* lines 165-167 for a delete_goal click: the user lookup returns
DeleteGoalUser(p) ==
    LET r == procs[p] IN
    /\ r.pc = "dg_user"
    /\ Quiet
    /\ \E ok \in BOOLEAN :
         procs' = [procs EXCEPT ![p] =
            IF ~ok
            THEN [r EXCEPT !.pc = "done", !.outcome = "raised"]
            ELSE IF SelectUser(users, r.chat) = {}
                 THEN [r EXCEPT !.pc = "done", !.outcome = "completed",
                                !.lookedUp = TRUE]
                 ELSE LET u == CHOOSE x \in SelectUser(users, r.chat) : TRUE
                      IN  [r EXCEPT !.user = u.id, !.lookedUp = TRUE,
                                    !.pc = "dg_delete"]]
    /\ UNCHANGED <<parserVars, viewVars, userStates, envVars, now, storeVars, events>>

\* lines 235-239: DELETE FROM goals WHERE id = $1 runs (or fails and is
\* caught)
DeleteGoalDelete(p) ==
    LET r == procs[p] IN
    /\ r.pc = "dg_delete"
    /\ Quiet
    /\ \E ok \in BOOLEAN :
         IF ~ok
         THEN /\ procs' = [procs EXCEPT ![p] =
                    [r EXCEPT !.pc = "done", !.outcome = "completed",
                              !.failed = TRUE, !.acked = TRUE]]
              /\ UNCHANGED goals
         ELSE /\ goals' = DeleteGoal(goals, r.goalId)
              /\ procs' = [procs EXCEPT ![p] =
                    [r EXCEPT !.writes = @ + 1, !.pc = "dg_message"]]
    /\ UNCHANGED <<parserVars, viewVars, userStates, envVars, now, users, daily, events>>

\* lines 240-241: the goal's message is deleted and "Goal deleted." is sent
\* (either can fail and is caught); then the query is answered
DeleteGoalMessage(p) ==
    LET r == procs[p] IN
    /\ r.pc = "dg_message"
    /\ Quiet
    /\ \E ok \in BOOLEAN :
         procs' = [procs EXCEPT ![p] =
            [r EXCEPT !.pc = "done", !.outcome = "completed",
                      !.acked = TRUE, !.failed = ~ok,
                      !.hsent = IF ok THEN Append(@, "goalDeleted") ELSE @]]
    /\ UNCHANGED <<parserVars, viewVars, userStates, envVars, now, storeVars, events>>

---------------------------------------------------------------------------
(* The reminder scheduler *)

\* the hours of cron.schedule('0 9,12,15,18,21 * * *')
ReminderHours == {9, 12, 15, 18, 21}

\* the scheduler's clock: Africa/Lagos in part_000 (the timezone option),
\* the host's zone in bot.js (no option)
RemindTime ==
    IF impl = "part" THEN LagosWall(now) % 24 \in ReminderHours
    ELSE (now + hostOff) % 24 \in ReminderHours

\* currentHour: part_000 reads the hour off the Lagos wall clock, bot.js
\* off the host's clock
CurrentHour ==
    IF impl = "part" THEN LagosWall(now) % 24 ELSE (now + hostOff) % 24

\* a listing of every registered chat, with or without goals
RemindChatsOfAllUsers == {u.chat_id : u \in users}

\* the chats of the user listing: part_000 SELECT DISTINCT u.chat_id FROM
\* users u INNER JOIN goals g ON u.id = g.user_id; bot.js SELECT chat_id
\* FROM users
RemindChats ==
    IF impl = "part"
    THEN {u.chat_id : u \in {x \in users :
                                \E i \in DOMAIN goals : goals[i].user_id = x.id}}
    ELSE {u.chat_id : u \in users}

\* the orders the listing can come back in (no ORDER BY)
ChatOrders(S) ==
    {s \in [1..Cardinality(S) -> S] :
        \A i, j \in DOMAIN s : i # j => s[i] # s[j]}

\* the reminder scheduler fires: the callback starts and awaits the listing
RemindFire(p) ==
    /\ RemindTime
    /\ Quiet /\ FreeSlot(p) /\ events < MaxEvents
    /\ procs' = [procs EXCEPT ![p] =
                    [Idle EXCEPT !.kind = "remind", !.pc = "remind_users",
                                 !.num = CurrentHour,
                                 !.outcome = "running"]]
    /\ events' = events + 1
    /\ UNCHANGED <<parserVars, viewVars, userStates, envVars, now, storeVars>>

\* for (const user of users.rows): part_000 first sleeps 200 ms, bot.js
\* sends at once; after the last row the callback ends
RemindLoop(r) ==
    IF r.idx <= Len(r.rows)
    THEN [r EXCEPT !.pc = IF impl = "part" THEN "remind_delay"
                          ELSE "remind_send"]
    ELSE [r EXCEPT !.pc = "done", !.outcome = "completed"]

\* the listing returns (or fails: caught by the try around the body in both
\* revisions); part_000 returns when it is empty
RemindUsers(p) ==
    LET r == procs[p] IN
    /\ r.pc = "remind_users"
    /\ Quiet
    /\ \E ok \in BOOLEAN, order \in ChatOrders(RemindChats) :
         procs' = [procs EXCEPT ![p] =
            IF ~ok
            THEN [r EXCEPT !.pc = "done", !.outcome = "completed",
                           !.failed = TRUE]
            ELSE RemindLoop([r EXCEPT !.rows = order, !.idx = 1])]
    /\ UNCHANGED <<parserVars, viewVars, userStates, envVars, now, storeVars, events>>

\* part_000 line 427: the 200 ms pause before a send
RemindDelay(p) ==
    LET r == procs[p] IN
    /\ r.pc = "remind_delay"
    /\ Quiet
    /\ procs' = [procs EXCEPT ![p] = [r EXCEPT !.pc = "remind_send"]]
    /\ UNCHANGED <<parserVars, viewVars, userStates, envVars, now, storeVars, events>>

\* the awaited bot.sendMessage(user.chat_id, msgText) resolves or rejects.
\* bot.js catches the rejection per user and goes on; in part_000 it leaves
\* the loop for the catch around the callback's body.
RemindSend(p) ==
    LET r    == procs[p]
        tried == [r EXCEPT !.attempted = Append(@, r.rows[r.idx])]
    IN
    /\ r.pc = "remind_send"
    /\ Quiet
    /\ \E ok \in BOOLEAN :
         procs' = [procs EXCEPT ![p] =
            IF ok
            THEN RemindLoop([tried EXCEPT
                               !.reminded = Append(@, r.rows[r.idx]),
                               !.idx = @ + 1])
            ELSE IF impl = "bot"
                 THEN RemindLoop([tried EXCEPT !.idx = @ + 1])
                 ELSE [tried EXCEPT !.pc = "done", !.outcome = "completed"]]
    /\ UNCHANGED <<parserVars, viewVars, userStates, envVars, now, storeVars, events>>

---------------------------------------------------------------------------
(* /addgoal, /addmany and the message handler *)

\* a message handler that takes commands for an answer
IsCommandNever(t) == FALSE

\* msg.text?.startsWith('/')
IsCommand(t) == Len(t) > 0 /\ t[1] = "/"

\* the word of a field: the fields of the messages of the model are one
\* word long, or empty
Word(s) == IF s = <<>> THEN "" ELSE s[1]

\* String.prototype.toLowerCase on the words of the model
ToLowerCase(w) ==
    CASE w = "SKIP" -> "skip" [] w = "Skip" -> "skip" [] OTHER -> w

\* msg.text.trim().toLowerCase() === 'skip' ? null : msg.text.trim()
DeadlineOf(t) ==
    IF ToLowerCase(Word(Trim(t))) = "skip" THEN Null ELSE Word(Trim(t))

RECURSIVE SplitBars(_)
\* line.split('|')
SplitBars(s) ==
    IF \A i \in 1..Len(s) : s[i] # "|"
    THEN <<s>>
    ELSE LET i == SetMin({j \in 1..Len(s) : s[j] = "|"})
         IN  <<SubSeq(s, 1, i - 1)>> \o SplitBars(SubSeq(s, i + 1, Len(s)))

RECURSIVE JoinBars(_)
\* parts.join('|')
JoinBars(ps) ==
    IF ps = <<>> THEN <<>>
    ELSE IF Len(ps) = 1 THEN ps[1]
    ELSE ps[1] \o <<"|">> \o JoinBars(Tail(ps))

\* msg.text.split('\n').map(l => l.trim()).filter(l => l.length > 0)
GoalLines(t) ==
    LET ls == SplitLines(t)
    IN  SelectSeq([i \in DOMAIN ls |-> Trim(ls[i])], LAMBDA l : Len(l) > 0)

\* the goal and the deadline one line of an /addmany answer is stored with.
\* part_000 takes parts[1] for the deadline; bot.js joins what follows the
\* first bar, and leaves the column to its default without a bar.
EntryOf(line) ==
    LET parts == SplitBars(line)
    IN  IF impl = "part"
        THEN [goal     |-> Word(Trim(parts[1])),
              deadline |-> IF Len(parts) > 1 THEN Word(Trim(parts[2]))
                           ELSE Null,
              cmd      |-> 0]
        ELSE IF Len(parts) > 1
             THEN [goal     |-> Word(Trim(parts[1])),
                   deadline |-> Word(Trim(JoinBars(Tail(parts)))),
                   cmd      |-> 0]
             ELSE [goal |-> Word(line), deadline |-> Null, cmd |-> 0]

\* INSERT INTO users (chat_id, username) VALUES ($1, $2)
\* ON CONFLICT (chat_id) DO NOTHING
RegisterUser(tbl, c) ==
    IF \E u \in tbl : u.chat_id = c THEN tbl
    ELSE tbl \cup {[id |-> SetMax({0} \cup {u.id : u \in tbl}) + 1,
                    chat_id |-> c]}

\* INSERT INTO goals (user_id, description, deadline) VALUES ($1, $2, $3):
\* the id is the next of the serial column (cmd: the /addgoal event the row
\* comes from, for the record)
InsertGoal(tbl, u, e) ==
    Append(tbl, [id |-> SetMax({0} \cup {tbl[i].id : i \in DOMAIN tbl}) + 1,
                 user_id |-> u, description |-> e.goal,
                 deadline |-> e.deadline, priority |-> 0, cmd |-> e.cmd])

\* the texts of /addgoal <text>
TempGoals == {"X", "Y"}

\* the texts of messages: two deadlines, an /addmany answer, a command
TalkTexts ==
    { <<"Skip">>,
      <<" ", "Dec", " ">>,
      <<"A", LF, " ", "B", " ", "|", " ", "Dec", LF>>,
      <<"/", "mygoals">> }

\* bot.onText(/\/addgoal (.+)/): the handler starts and awaits registerUser
AddGoalCommand(p, c, g) ==
    /\ Quiet /\ FreeSlot(p) /\ events < MaxEvents
    /\ procs' = [procs EXCEPT ![p] =
                    [Idle EXCEPT !.kind = "addgoal", !.chat = c,
                                 !.goalText = g, !.cmd = events + 1,
                                 !.pc = "addgoal_register",
                                 !.outcome = "running"]]
    /\ events' = events + 1
    /\ UNCHANGED <<parserVars, viewVars, userStates, envVars, now, storeVars>>

\* registerUser returns (it catches its own failure); the state is set and
\* the question about the deadline sent
AddGoalRegister(p) ==
    LET r == procs[p] IN
    /\ r.pc = "addgoal_register"
    /\ Quiet
    /\ \E ok \in BOOLEAN :
         users' = IF ok THEN RegisterUser(users, r.chat) ELSE users
    /\ userStates' = [userStates EXCEPT ![r.chat] =
                         [state |-> "awaiting_deadline",
                          tempGoal |-> r.goalText, cmd |-> r.cmd]]
    /\ procs' = [procs EXCEPT ![p] =
                    [r EXCEPT !.pc = "done", !.outcome = "completed",
                              !.hsent = Append(@, "whenDeadline")]]
    /\ UNCHANGED <<parserVars, viewVars, envVars, now, goals, daily, events>>

\* bot.onText(/\/addmany/): the instructions are sent and the state set, in
\* one go
AddManyCommand(p, c) ==
    /\ Quiet /\ FreeSlot(p) /\ events < MaxEvents
    /\ userStates' = [userStates EXCEPT ![c] =
                         [state |-> "awaiting_multiple_goals",
                          tempGoal |-> "", cmd |-> 0]]
    /\ procs' = [procs EXCEPT ![p] =
                    [Idle EXCEPT !.kind = "addmany", !.chat = c,
                                 !.outcome = "completed",
                                 !.hsent = <<"sendYourGoals">>]]
    /\ events' = events + 1
    /\ UNCHANGED <<parserVars, viewVars, envVars, now, storeVars>>

\* bot.on('message') for a text: the handler reads the state of the chat
\* and returns at once for a command or a chat without state; else it
\* awaits registerUser
TextMessage(p, c, t) ==
    LET state == userStates[c]
        start == [Idle EXCEPT !.kind = "message", !.chat = c,
                              !.msgText = t, !.recv = state]
    IN
    /\ Quiet /\ FreeSlot(p) /\ events < MaxEvents
    /\ procs' = [procs EXCEPT ![p] =
                    IF IsCommand(t) \/ state = NoState
                    THEN [start EXCEPT !.outcome = "completed"]
                    ELSE [start EXCEPT !.pc = "msg_register",
                                       !.outcome = "running"]]
    /\ events' = events + 1
    /\ UNCHANGED <<parserVars, viewVars, userStates, envVars, now, storeVars>>

\* registerUser returns
MsgRegister(p) ==
    LET r == procs[p] IN
    /\ r.pc = "msg_register"
    /\ Quiet
    /\ \E ok \in BOOLEAN :
         users' = IF ok THEN RegisterUser(users, r.chat) ELSE users
    /\ procs' = [procs EXCEPT ![p] = [r EXCEPT !.pc = "msg_user"]]
    /\ UNCHANGED <<parserVars, viewVars, userStates, envVars, now, goals,
                   daily, events>>

\* the catch block: "Error saving", userStates.delete(chatId)
MsgCatch(r) ==
    [r EXCEPT !.pc = "done", !.outcome = "completed", !.failed = TRUE,
              !.entries = <<>>, !.hsent = Append(@, "errorSaving")]

\* the end of a branch: the confirmation is sent and the state deleted
MsgEnd(r, note) ==
    [r EXCEPT !.pc = "done", !.outcome = "completed", !.entries = <<>>,
              !.hsent = Append(@, note)]

\* the user lookup returns; the answer is turned into the goals to insert.
\* Without a row bot.js throws and part_000 fails on rows[0].id: both end in
\* the catch block.
MsgUser(p) ==
    LET r    == procs[p]
        rows == SelectUser(users, r.chat)
        todo == IF r.recv.state = "awaiting_deadline"
                THEN << [goal |-> r.recv.tempGoal,
                         deadline |-> DeadlineOf(r.msgText),
                         cmd |-> r.recv.cmd] >>
                ELSE LET ls == GoalLines(r.msgText)
                     IN  [i \in DOMAIN ls |-> EntryOf(ls[i])]
    IN
    /\ r.pc = "msg_user"
    /\ Quiet
    /\ \E ok \in BOOLEAN :
         IF ~ok \/ rows = {}
         THEN /\ procs' = [procs EXCEPT ![p] = MsgCatch(r)]
              /\ userStates' = [userStates EXCEPT ![r.chat] = NoState]
         ELSE IF todo = <<>>
         THEN /\ procs' = [procs EXCEPT ![p] =
                    MsgEnd(r, IF impl = "bot" THEN "noValidGoals"
                              ELSE "added")]
              /\ userStates' = [userStates EXCEPT ![r.chat] = NoState]
         ELSE /\ procs' = [procs EXCEPT ![p] =
                    [r EXCEPT !.user = (CHOOSE u \in rows : TRUE).id,
                              !.entries = todo, !.pc = "msg_insert"]]
              /\ UNCHANGED userStates
    /\ UNCHANGED <<parserVars, viewVars, envVars, now, storeVars, events>>

\* one INSERT INTO goals returns: the next is issued, or the confirmation
\* sent and the state deleted
MsgInsert(p) ==
    LET r == procs[p] IN
    /\ r.pc = "msg_insert"
    /\ Quiet
    /\ \E ok \in BOOLEAN :
         IF ~ok
         THEN /\ procs' = [procs EXCEPT ![p] = MsgCatch(r)]
              /\ userStates' = [userStates EXCEPT ![r.chat] = NoState]
              /\ UNCHANGED goals
         ELSE /\ goals' = InsertGoal(goals, r.user, Head(r.entries))
              /\ IF Len(r.entries) > 1
                 THEN /\ procs' = [procs EXCEPT ![p] =
                            [r EXCEPT !.entries = Tail(@),
                                      !.inserts = @ + 1]]
                      /\ UNCHANGED userStates
                 ELSE /\ procs' = [procs EXCEPT ![p] =
                            MsgEnd([r EXCEPT !.inserts = @ + 1], "added")]
                      /\ userStates' = [userStates EXCEPT ![r.chat] = NoState]
    /\ UNCHANGED <<parserVars, viewVars, envVars, now, users, daily, events>>

---------------------------------------------------------------------------
(* Time *)

\* the clock moves to the next instant
Tick ==
    /\ Quiet
    /\ \E t \in Instants : t > now
    /\ now' = SetMin({t \in Instants : t > now})
    /\ UNCHANGED <<parserVars, viewVars, userStates, envVars, storeVars, procs, events>>

---------------------------------------------------------------------------
(* Initial states *)

HostOffsets  == {0, 1}
StoreOffsets == {0, 1}

\* two registered users; chat 103 has never sent /start
InitUsers == {[id |-> 1, chat_id |-> 101], [id |-> 2, chat_id |-> 102]}

\* a goal as the INSERTs write it: priority is left to the column default
Goal(id, u, description, deadline) ==
    [id |-> id, user_id |-> u, description |-> description,
     deadline |-> deadline, priority |-> 0, cmd |-> 0]

\* user 1 owns two goals, user 2 none
GoalsOfOne == << Goal(1, 1, "A", Null), Goal(2, 1, "B", "Dec") >>

\* both users own goals
GoalsOfBoth == << Goal(1, 1, "A", Null), Goal(2, 2, "B", "Dec") >>

ParserIdle ==
    /\ text = <<>>
    /\ parsed = <<>>
    /\ pdone = FALSE

ViewIdle ==
    /\ message = <<>>
    /\ stored = <<>>
    /\ keyboard = <<>>
    /\ taps = 0

NoStore ==
    /\ impl = "part"
    /\ hostOff = 0
    /\ dbOff = 0
    /\ now = SetMin(Instants)
    /\ users = {}
    /\ goals = <<>>
    /\ daily = <<>>
    /\ procs = [p \in Procs |-> Idle]
    /\ events = 0
    /\ userStates = NoStates

Init ==
    /\ ParserIdle
    /\ ViewIdle
    /\ impl \in {"bot", "part"}
    /\ hostOff \in HostOffsets
    /\ dbOff \in StoreOffsets
    /\ now = SetMin(Instants)
    /\ users = InitUsers
    /\ goals = GoalsOfOne
    /\ daily = <<>>
    /\ procs = [p \in Procs |-> Idle]
    /\ events = 0
    /\ userStates = NoStates

Next ==
    \/ \E p \in Procs, c \in Chats : GenerateCommand(p, c)
    \/ \E p \in Procs : GenUser(p)
    \/ \E p \in Procs : PlanYesterday(p)
    \/ \E p \in Procs : PlanGoals(p)
    \/ \E p \in Procs : PlanGenerate(p)
    \/ \E p \in Procs : PlanUpsert(p)
    \/ \E p \in Procs : PlanSend(p)
    \/ \E p \in Procs, c \in Chats, k \in 1..MaxOrdinal : Click(p, c, k)
    \/ \E p \in Procs : ClickUser(p)
    \/ \E p \in Procs : ClickSelect(p)
    \/ \E p \in Procs : ClickUpdate(p)
    \/ \E p \in Procs : ClickEdit(p)
    \/ \E p \in Procs : Return(p)
    \/ Tick

Spec == Init /\ [][Next]_vars

\* the scheduler alone: one firing at a time
InitSched ==
    /\ ParserIdle
    /\ ViewIdle
    /\ impl \in {"bot", "part"}
    /\ hostOff \in HostOffsets
    /\ dbOff \in StoreOffsets
    /\ now = SetMin(Instants)
    /\ users = InitUsers
    /\ goals \in {GoalsOfOne, GoalsOfBoth}
    /\ daily = <<>>
    /\ procs = [p \in Procs |-> Idle]
    /\ events = 0
    /\ userStates = NoStates

NextSched ==
    \/ CronFire(1)
    \/ CronUsers(1)
    \/ CronDelay(1)
    \/ PlanYesterday(1)
    \/ PlanGoals(1)
    \/ PlanGenerate(1)
    \/ PlanUpsert(1)
    \/ PlanSend(1)
    \/ Return(1)
    \/ Tick

SpecSched == InitSched /\ [][NextSched]_vars

\* the goal commands alone, one event at a time: user 1 owns A, B and C
\* (created in that order), user 2 owns D
GoalsABC ==
    << Goal(1, 1, "A", Null), Goal(2, 1, "B", "Dec"), Goal(3, 1, "C", Null),
       Goal(4, 2, "D", Null) >>

InitGoals ==
    /\ ParserIdle
    /\ ViewIdle
    /\ impl \in {"bot", "part"}
    /\ hostOff = 0
    /\ dbOff = 0
    /\ now = SetMin(Instants)
    /\ users = InitUsers
    /\ goals = GoalsABC
    /\ daily = <<>>
    /\ procs = [p \in Procs |-> Idle]
    /\ events = 0
    /\ userStates = NoStates

NextGoals ==
    \/ \E c \in Chats : MyGoalsCommand(1, c)
    \/ MyGoalsSelect(1)
    \/ MyGoalsSend(1)
    \/ \E c \in Chats, n \in DeleteNumbers : DeleteCommand(1, c, n)
    \/ DeleteUser(1)
    \/ DeleteSelect(1)
    \/ DeleteDelete(1)
    \/ \E c \in Chats, g \in ButtonGoalIds : ClickDeleteGoal(1, c, g)
    \/ DeleteGoalUser(1)
    \/ DeleteGoalDelete(1)
    \/ DeleteGoalMessage(1)
    \/ Return(1)

SpecGoals == InitGoals /\ [][NextGoals]_vars

\* the reminder scheduler alone, at 08:00 and 09:00 UTC of day 1 (9 and
\* 10 AM in Lagos)
ReminderInstants == {24 + 8, 24 + 9}

InitRemind ==
    /\ ParserIdle
    /\ ViewIdle
    /\ impl \in {"bot", "part"}
    /\ hostOff \in HostOffsets
    /\ dbOff = 0
    /\ now \in ReminderInstants
    /\ users = InitUsers
    /\ goals \in {<<>>, GoalsOfOne, GoalsOfBoth, GoalsABC}
    /\ daily = <<>>
    /\ procs = [p \in Procs |-> Idle]
    /\ events = 0
    /\ userStates = NoStates

NextRemind ==
    \/ RemindFire(1)
    \/ RemindUsers(1)
    \/ RemindDelay(1)
    \/ RemindSend(1)
    \/ Return(1)

SpecRemind == InitRemind /\ [][NextRemind]_vars

---------------------------------------------------------------------------
(* The conversation handlers alone *)

InitTalk ==
    /\ ParserIdle
    /\ ViewIdle
    /\ impl \in {"bot", "part"}
    /\ hostOff = 0
    /\ dbOff = 0
    /\ now = SetMin(Instants)
    /\ users = InitUsers
    /\ goals = <<>>
    /\ daily = <<>>
    /\ procs = [p \in Procs |-> Idle]
    /\ events = 0
    /\ userStates = NoStates

\* the steps handlers in flight take
TalkStep ==
    \E p \in Procs :
        \/ AddGoalRegister(p)
        \/ MsgRegister(p)
        \/ MsgUser(p)
        \/ MsgInsert(p)
        \/ Return(p)

NextTalk ==
    \/ \E p \in Procs, c \in Chats, g \in TempGoals : AddGoalCommand(p, c, g)
    \/ \E p \in Procs, c \in Chats : AddManyCommand(p, c)
    \/ \E p \in Procs, c \in Chats, t \in TalkTexts : TextMessage(p, c, t)
    \/ TalkStep

\* every await of a handler resolves or rejects in the end
SpecTalk == InitTalk /\ [][NextTalk]_vars /\ WF_vars(TalkStep)

---------------------------------------------------------------------------
(* The parser on enumerated inputs *)

Alphabet == {"1", "2", ".", " ", "*", "a", LF, CR}

\* the input of the parser-robustness example
ExampleText ==
  << "1", ".", " ", "F", "i", "n", "i", "s", "h", " ", "r", "e", "p", "o", "r",
     "t", LF, "2", ")", " ", "C", "a", "l", "l", " ", "c", "l", "i", "e", "n",
     "t", LF, "*", "*", "3", ":", "*", "*", " ", "R", "e", "v", "i", "e", "w",
     " ", "n", "o", "t", "e", "s", LF, "K", "e", "e", "p", " ", "g", "o", "i",
     "n", "g", "!" >>

ExampleTasks ==
  << [id |-> 1, done |-> FALSE,
      text |-> <<"F", "i", "n", "i", "s", "h", " ", "r", "e", "p", "o", "r", "t">>],
     [id |-> 2, done |-> FALSE,
      text |-> <<"C", "a", "l", "l", " ", "c", "l", "i", "e", "n", "t">>],
     [id |-> 3, done |-> FALSE,
      text |-> <<"R", "e", "v", "i", "e", "w", " ", "n", "o", "t", "e", "s">>] >>

ParserInputs ==
    {ExampleText} \cup UNION {[1..n -> Alphabet] : n \in 0..MaxLen}

InitParser ==
    /\ text \in ParserInputs
    /\ parsed = <<>>
    /\ pdone = FALSE
    /\ ViewIdle
    /\ NoStore

\* the generated text goes through step 5
ParseInput ==
    /\ ~pdone
    /\ parsed' = ParseTasks(text)
    /\ pdone' = TRUE
    /\ UNCHANGED <<text, viewVars, userStates, envVars, now, storeVars, procs, events>>

NextParser == ParseInput

SpecParser == InitParser /\ [][NextParser]_vars

---------------------------------------------------------------------------
(* The plan message under toggles *)

\* most tasks in an enumerated plan
MaxTasks == 11

\* most toggles on one message
MaxTaps == 3

\* a generated text of n tasks "i. t", one per line
NumberedText(n) ==
    JoinLines([i \in 1..n |-> IntToDigits(i) \o <<".", " ", "t">>])

\* generated texts: n numbered tasks with and without a closing remark,
\* a last task written "2) b", two tasks under one ordinal
ViewTexts ==
    {NumberedText(n) : n \in 1..MaxTasks}
        \cup {NumberedText(n) \o <<LF, "q">> : n \in 1..MaxTasks}
        \cup { <<"1", ".", " ", "a", LF, "2", ")", " ", "b">>,
               <<"1", ".", " ", "a", LF, "1", ".", " ", "b", LF, "q">>,
               TwoTasks, OneTask, NoTasks }

InitView ==
    /\ text \in ViewTexts
    /\ parsed = <<>>
    /\ pdone = FALSE
    /\ ViewIdle
    /\ NoStore

\* steps 5 to 8 of generateAndSendDailyPlan for the generated text
ViewSend ==
    /\ ~pdone
    /\ \E carried \in BOOLEAN :
          message' = Delivered(PlanText(carried, text))
    /\ parsed' = ParseTasks(text)
    /\ stored' = ParseTasks(text)
    /\ keyboard' = PlanButtons(ParseTasks(text))
    /\ pdone' = TRUE
    /\ UNCHANGED <<text, taps, userStates, envVars, now, storeVars, procs,
                   events>>

\* a click on the button of ordinal k that runs to the end: the UPDATE and
\* the editMessageText both succeed
ViewToggle(k) ==
    /\ pdone
    /\ taps < MaxTaps
    /\ TaskFound(stored, k)
    /\ stored' = ToggleTasks(stored, k)
    /\ message' = Delivered(NewText(ToggleTasks(stored, k), message))
    /\ keyboard' = ToggleButtons(ToggleTasks(stored, k))
    /\ taps' = taps + 1
    /\ UNCHANGED <<parserVars, userStates, envVars, now, storeVars, procs,
                   events>>

NextView ==
    \/ ViewSend
    \/ \E k \in 1..MaxTasks : ViewToggle(k)

SpecView == InitView /\ [][NextView]_vars

---------------------------------------------------------------------------
(* C1 *)

\* C1: after any interleaving of generateAndSendDailyPlan calls and
\* check_task events the table daily_activities holds at most one record
\* per (user, date); a run that meets a record of its (user, date)
\* overwrites it and adds none.
C1_OneRecordPerUserDate ==
    \A i, j \in DOMAIN daily :
        (daily[i].user_id = daily[j].user_id
            /\ daily[i].activity_date = daily[j].activity_date) => i = j

\* a second run for the same user and date has returned after its upsert
C1_SecondRunOverwrote ==
    \E p \in Procs :
        /\ procs[p].last.overwrote
        /\ procs[p].last.writes = 1
        /\ Len(SelectDaily(daily, procs[p].last.user,
                           CurrentDate(now, dbOff))) = 1

---------------------------------------------------------------------------
(* C2 *)

\* C2: a generateAndSendDailyPlan call for a user with zero goals and no
\* unfinished task in the previous day's record makes no generateContent
\* call and no store write, and the "no active goals" message is the only
\* message it sends.
C2_ZeroGoalsOnlyNoGoalsMessage ==
    \A p \in Procs :
        LET c == procs[p].last IN
        (c # NoCall /\ c.zeroGoals /\ c.truePrev = <<>>)
            => /\ c.genCalls = 0
               /\ c.writes = 0
               /\ c.sent = <<"noGoals">>

---------------------------------------------------------------------------
(* C3 *)

\* C3: while every check_task update is applied to the task list it read
\* (one event after the other, against the current day's record), a task's
\* flag is flipped exactly by the events of its own ordinal: an event for k
\* leaves the flags of the other ordinals alone, and two events for k give
\* every flag the value it had before the first.
C3_ToggleTwiceRestores ==
    \A i \in DOMAIN daily :
        (daily[i].seq /\ ~daily[i].tasksNull)
            => \A j \in DOMAIN daily[i].tasks :
                   daily[i].tasks[j].done
                       = daily[i].par[daily[i].tasks[j].id]

\* two events for one ordinal have been applied in sequence to a list of
\* two tasks
C3_TwoSequentialClicks ==
    \E i \in DOMAIN daily :
        /\ daily[i].seq
        /\ daily[i].clicks = 2
        /\ Len(daily[i].tasks) = 2
        /\ \A k \in DOMAIN daily[i].par : ~daily[i].par[k]

---------------------------------------------------------------------------
(* C4 *)

\* C4: check_task events in flight at the same time lose no click: once
\* every ordinal has been clicked an even number of times on a plan (two
\* clicks on one ordinal), every completion flag is back at the value the
\* plan was stored with, false.
C4_NoClickLost ==
    \A i \in DOMAIN daily :
        (/\ daily[i].pure
         /\ ~daily[i].tasksNull
         /\ daily[i].clicks = 2
         /\ \A k \in DOMAIN daily[i].par : ~daily[i].par[k])
            => \A j \in DOMAIN daily[i].tasks : ~daily[i].tasks[j].done

---------------------------------------------------------------------------
(* C5 *)

\* C5: a check_task event of a registered user whose ordinal is the id of
\* no task in the user's record of the current date makes no store write
\* and no message edit, and its handler completes without an error.
C5_AbsentOrdinalNoOp ==
    \A p \in Procs :
        LET r == procs[p] IN
        (r.kind = "click" /\ r.pc = "done" /\ r.user # 0 /\ ~r.inList)
            => /\ r.writes = 0
               /\ r.edits = 0
               /\ r.outcome = "completed"

\* a click has ended whose ordinal is not in the non-empty task list of the
\* user's record of the current date
C5_AbsentOrdinalClicked ==
    \E p \in Procs :
        /\ procs[p].kind = "click"
        /\ procs[p].pc = "done"
        /\ procs[p].user # 0
        /\ ~procs[p].failed
        /\ \E i \in DOMAIN daily :
              /\ daily[i].user_id = procs[p].user
              /\ daily[i].activity_date = CurrentDate(now, dbOff)
              /\ ~daily[i].tasksNull
              /\ daily[i].tasks # <<>>
              /\ procs[p].taskNum \notin TaskIds(daily[i].tasks)

---------------------------------------------------------------------------
(* C6 *)

\* text t occurs in text s
Occurs(t, s) ==
    \E i \in 0..(Len(s) - Len(t)) : SubSeq(s, i + 1, i + Len(t)) = t

\* C6: when the prompt goes to the generation provider, the text of every
\* task with done = false in the user's record of the previous day occurs
\* in it verbatim, and no text of a task with done = true in that record is
\* among the carried-over items.
C6_CarryOverInPrompt ==
    \A p \in Procs :
        LET r == procs[p] IN
        r.pc = "plan_generate"
            => /\ \A i \in DOMAIN r.truePrev : Occurs(r.truePrev[i], r.prompt)
               /\ \A i \in DOMAIN r.prevDone :
                     \A j \in DOMAIN r.unfinishedTasks :
                         r.unfinishedTasks[j] # r.prevDone[i]

---------------------------------------------------------------------------
(* C7 *)

\* the parser as the claim describes it: a line that, cleaned, starts with
\* digits and a separator gives (the integer, the trimmed remainder, false)
ClaimedLineTasks(line) ==
    LET cl == CleanLine(line)
        n  == DigitRun(cl)
    IN  IF n >= 1 /\ Len(cl) > n /\ cl[n + 1] \in Separators
        THEN << [id   |-> ParseInt(SubSeq(cl, 1, n)),
                 text |-> Trim(SubSeq(cl, n + 2, Len(cl))),
                 done |-> FALSE] >>
        ELSE <<>>

RECURSIVE ClaimedLines(_)
ClaimedLines(lines) ==
    IF lines = <<>> THEN <<>>
    ELSE ClaimedLineTasks(Head(lines)) \o ClaimedLines(Tail(lines))

\* C7: the parser emits, for every input, exactly one task per matching
\* line, with id the parsed integer, text the trimmed remainder of the line
\* and done false, and nothing for any other line; the example input gives
\* the three example tasks.
C7_ParserAsClaimed ==
    pdone => /\ parsed = ClaimedLines(SplitLines(text))
             /\ (text = ExampleText => parsed = ExampleTasks)

\* the part of C7 that the code meets: the example, and every line that
\* holds no carriage return after its first character of task text
C7_ExampleParsed ==
    (pdone /\ text = ExampleText) => parsed = ExampleTasks

C7_NoInnerCR ==
    (pdone /\ \A i \in 1..Len(text) : text[i] # CR)
        => parsed = ClaimedLines(SplitLines(text))

---------------------------------------------------------------------------
(* C8 *)

\* s without its n-th element
RemoveAt(s, n) == SubSeq(s, 1, n - 1) \o SubSeq(s, n + 1, Len(s))

\* C8: when /delete N (N within the listing) of a registered chat has been
\* handled without a store failure, the goal listing of the chat (priority
\* descending, then creation order) is the listing at the command's arrival
\* without its N-th goal: of [A, B, C], /delete 2 leaves [A, C].
C8_DeleteRemovesNth ==
    LET r == procs[1] IN
    (/\ r.kind = "delete"
     /\ r.pc = "done"
     /\ ~r.failed
     /\ r.num \in 1..Len(r.listBefore))
        => GoalTexts(OrderByPriority(GoalsOfChat(users, goals, r.chat)))
              = RemoveAt(r.listBefore, r.num)

---------------------------------------------------------------------------
(* C9 *)

\* C9: no generateAndSendDailyPlan call raises to its caller; a call in
\* which a store read, the generation or the upsert failed has sent the
\* retry notice as its last message and returned normally.
C9_PlanNeverRaises ==
    \A p \in Procs :
        LET c == procs[p].last IN
        c # NoCall
            => /\ ~c.raised
               /\ c.failed => (c.sent # <<>> /\ c.sent[Len(c.sent)] = "retry")

\* a call that failed has returned to its caller
C9_FailedCallReturned ==
    \E p \in Procs :
        /\ procs[p].last.failed
        /\ ~procs[p].last.raised
        /\ procs[p].last.sent # <<>>
        /\ procs[p].outcome # "raised"

---------------------------------------------------------------------------
(* C10 *)

\* C10: in a firing of the daily scheduler whose user listing succeeded, the
\* orchestrator is invoked for the listed users in their order, once each,
\* and when the firing ends it has been invoked for every registered user,
\* whichever of the calls failed.
C10_EveryUserInvoked ==
    LET r == procs[1] IN
    r.kind = "cron"
        => /\ Len(r.invoked) <= Len(r.rows)
           /\ \A i \in DOMAIN r.invoked : r.invoked[i] = r.rows[i].id
           /\ (r.pc = "done" /\ ~r.failed)
                 => /\ Len(r.invoked) = Cardinality(users)
                    /\ {r.invoked[i] : i \in DOMAIN r.invoked}
                          = {u.id : u \in users}

\* the call for the first listed user failed and the orchestrator has been
\* invoked for the second
C10_InvokedAfterFailure ==
    LET r == procs[1] IN
    /\ r.kind = "cron"
    /\ r.last.failed
    /\ Len(r.rows) = 2
    /\ r.last.user = r.rows[1].id
    /\ Len(r.invoked) = 2

---------------------------------------------------------------------------
(* C11 *)

\* C11: in a firing of the reminder scheduler whose listing succeeded, a
\* failed send does not end the batch: when the firing is over, a send has
\* been issued to every listed chat, in the order of the listing.
C11_FailedSendDoesNotAbort ==
    LET r == procs[1] IN
    (r.kind = "remind" /\ r.pc = "done" /\ ~r.failed)
        => r.attempted = r.rows

---------------------------------------------------------------------------
(* C12 *)

\* C12: no handler of an inbound event and no scheduler callback ends with
\* a store failure that left it uncaught (an unhandled rejection of the
\* async callback).
C12_NoUnhandledStoreFailure ==
    \A p \in Procs : procs[p].outcome # "raised"

---------------------------------------------------------------------------
(* C13 *)

\* C13: a check_task event from a chat without a registered user, or from a
\* user without a record for the current date, makes no store write and no
\* message edit.
C13_NoUserOrNoRecordNoOp ==
    \A p \in Procs :
        LET r == procs[p] IN
        (r.kind = "click" /\ r.lookedUp /\ (r.user = 0 \/ ~r.hasRecord))
            => /\ r.writes = 0
               /\ r.edits = 0

\* a click on a button of an earlier day's plan has ended: the user has a
\* record with that ordinal, but none for the current date
C13_StaleButtonClicked ==
    \E p \in Procs :
        /\ procs[p].kind = "click"
        /\ procs[p].pc = "done"
        /\ procs[p].user # 0
        /\ ~procs[p].hasRecord
        /\ ~procs[p].failed
        /\ \E i \in DOMAIN daily :
              /\ daily[i].user_id = procs[p].user
              /\ daily[i].activity_date < CurrentDate(now, dbOff)
              /\ ~daily[i].tasksNull
              /\ procs[p].taskNum \in TaskIds(daily[i].tasks)

---------------------------------------------------------------------------
(* C14 *)

\* C14: the task list a check_task event writes back has the length of the
\* list it read, and every position keeps its id and its text; only done
\* flags differ.
C14_ToggleKeepsIdsAndTexts ==
    \A p \in Procs :
        LET r == procs[p] IN
        (r.kind = "click" /\ r.pc \in {"click_update", "click_edit"})
            => TaskShape(r.tasks) = r.readShape

\* a click has written back a list of two tasks with a flag changed
C14_TwoTaskListWritten ==
    \E p \in Procs :
        /\ procs[p].kind = "click"
        /\ procs[p].pc = "click_edit"
        /\ procs[p].writes = 1
        /\ Len(procs[p].tasks) = 2
        /\ \E i \in DOMAIN procs[p].tasks : procs[p].tasks[i].done

---------------------------------------------------------------------------
(* C15 *)

\* C15: a /delete N of a registered chat with N below 1 or above the number
\* of the user's goals, handled without a store failure, is answered with
\* the validation message and deletes no goal; a delete_goal click whose id
\* is the id of no stored goal leaves the stored goals as they are.
C15_InvalidDeleteRejected ==
    LET r == procs[1] IN
    /\ (/\ r.kind = "delete"
        /\ r.pc = "done"
        /\ ~r.failed
        /\ SelectUser(users, r.chat) # {}
        /\ r.num \notin 1..Len(r.listBefore))
          => /\ r.hsent = <<"invalidNumber">>
             /\ r.writes = 0
             /\ GoalTexts(OrderByPriority(GoalsOfChat(users, goals, r.chat)))
                   = r.listBefore
    /\ (r.kind = "delete_goal" /\ ~r.found)
          => GoalTexts(goals) = r.listBefore

---------------------------------------------------------------------------
(* C16 *)

\* the upsert of a plan without tasks stores the raw text with an empty
\* task list
UpsertOfEmptyPlanStores ==
    \A p \in Procs :
        (/\ procs[p].pc = "plan_upsert"
         /\ procs'[p].pc = "plan_send"
         /\ procs[p].tasksArray = <<>>)
            => \E i \in DOMAIN daily' :
                  /\ daily'[i].user_id = procs[p].planUser
                  /\ daily'[i].activity_date = CurrentDate(now, dbOff)
                  /\ daily'[i].content = procs[p].genText
                  /\ ~daily'[i].tasksNull
                  /\ daily'[i].tasks = <<>>

\* C16: a generated text without a task line is no failure: the upsert
\* stores the raw text with an empty task list, the control grid is empty,
\* and unless the store or the transport fails the call has made its write
\* and ends with the plan message, not with the retry notice.
C16_ZeroTasksStillStoredAndSent ==
    /\ [](\A p \in Procs :
            /\ (procs[p].last.noTasks /\ ~procs[p].last.failed)
                  => /\ procs[p].last.writes = 1
                     /\ procs[p].last.sent = <<"progress", "plan">>
            /\ (procs[p].pc = "plan_send" /\ procs[p].tasksArray = <<>>)
                  => /\ PlanButtons(procs[p].tasksArray) = <<>>
                     /\ procs[p].writes = 1
                     /\ ~procs[p].failed)
    /\ [][UpsertOfEmptyPlanStores]_vars

\* a call whose generated text held no task has returned after the plan
\* message, and the record of the text with an empty task list is stored
C16_EmptyPlanSent ==
    \E p \in Procs :
        /\ procs[p].last.noTasks
        /\ ~procs[p].last.failed
        /\ \E i \in DOMAIN daily :
              /\ daily[i].user_id = procs[p].last.user
              /\ daily[i].content = NoTasks
              /\ ~daily[i].tasksNull
              /\ daily[i].tasks = <<>>

---------------------------------------------------------------------------
(* C17 *)

\* C17: the date the upsert of generateAndSendDailyPlan keys the record
\* with and the date the toggle handler selects are the calendar date of
\* the moment in Africa/Lagos, and yesterdayStr is the day before it,
\* whatever the zones of the host and of the store session and whatever the
\* time of day.
C17_DateKeysInFixedZone ==
    \A p \in Procs :
        LET r == procs[p] IN
        /\ r.pc \in {"plan_upsert", "click_select"}
              => CurrentDate(now, dbOff) = DateOf(LagosWall(now))
        /\ r.pc = "plan_yesterday"
              => r.yesterdayStr = r.lagosDay - 1

---------------------------------------------------------------------------
(* C18 *)

\* the users a chat stands for
OwnersOf(c) == {u.id : u \in {x \in users : x.chat_id = c}}

\* a step of the handler in slot 1 creates, changes or deletes only goals
\* and daily records of the user of its chat
OnlyOwnRecordsTouched ==
    /\ \A i \in DOMAIN goals :
          (\A j \in DOMAIN goals' : goals'[j] # goals[i])
              => goals[i].user_id \in OwnersOf(procs[1].chat)
    /\ \A j \in DOMAIN goals' :
          (\A i \in DOMAIN goals : goals[i] # goals'[j])
              => goals'[j].user_id \in OwnersOf(procs[1].chat)
    /\ \A i \in DOMAIN daily :
          (\A j \in DOMAIN daily' : daily'[j] # daily[i])
              => daily[i].user_id \in OwnersOf(procs[1].chat)
    /\ \A j \in DOMAIN daily' :
          (\A i \in DOMAIN daily : daily[i] # daily'[j])
              => daily'[j].user_id \in OwnersOf(procs[1].chat)

\* C18: no operation done for one user's chat (a command, a delete_goal or
\* check_task click) creates, changes or deletes a goal or a daily record
\* owned by another user.
C18_NoCrossUserEffect == [][OnlyOwnRecordsTouched]_vars

---------------------------------------------------------------------------
(* C19 *)

\* a line that stands for a task: the parser reads a task from it, or it is
\* the line the toggle handler writes for a stored task, done or not
IsTaskLine(l) ==
    \/ LineTasks(l) # <<>>
    \/ \E i \in DOMAIN stored :
          \/ l = TaskLine(stored[i])
          \/ l = TaskLine([stored[i] EXCEPT !.done = ~@])

\* the lines of the message are the lines of the stored tasks in stored
\* order, then nothing or an empty line and one remark that is no task line
TaskLinesThenRemark ==
    LET ls == SplitLines(message)
        n  == Len(stored)
    IN  /\ Len(ls) \in {n, n + 2}
        /\ \A i \in 1..n : ls[i] = TaskLine(stored[i])
        /\ Len(ls) = n + 2 => (ls[n + 1] = <<>> /\ ~IsTaskLine(ls[n + 2]))

\* C19: after one or more successful toggles on a message its text is one
\* line per stored task in stored order (check mark and strike marks iff
\* done), then at most one closing remark, which is no copy of a task line.
C19_EditedTextIsTaskLinesAndRemark == taps > 0 => TaskLinesThenRemark

---------------------------------------------------------------------------
(* C20 *)

\* the controls of a grid, row after row
RECURSIVE Flatten(_)
Flatten(rows) ==
    IF rows = <<>> THEN <<>> ELSE Head(rows) \o Flatten(Tail(rows))

\* C20: the grid sent with a plan and the grid rebuilt by a toggle hold one
\* control per stored task in task order, rows of exactly 5 except possibly
\* the last, no empty row, callback check_task_<id>, and the checked icon
\* iff the task is done (never on a freshly sent plan).
C20_GridMatchesTasks ==
    pdone =>
        /\ Flatten(keyboard) =
              [i \in DOMAIN stored |->
                  [label |-> stored[i].id,
                   icon  |-> IF stored[i].done THEN "checked" ELSE "unchecked",
                   data  |-> <<"check_task", stored[i].id>>]]
        /\ \A r \in DOMAIN keyboard :
              /\ Len(keyboard[r]) >= 1
              /\ r < Len(keyboard) => Len(keyboard[r]) = 5
        /\ taps = 0 =>
              \A r \in DOMAIN keyboard : \A j \in DOMAIN keyboard[r] :
                  keyboard[r][j].icon = "unchecked"

\* a grid of three rows, the last with one control, rebuilt after toggles
\* that left a task of the second row done
C20_ThreeRowGridRebuilt ==
    /\ pdone
    /\ taps > 0
    /\ Len(stored) = 11
    /\ Len(keyboard) = 3
    /\ Len(keyboard[3]) = 1
    /\ keyboard[2][2].icon = "checked"
    /\ keyboard[1][1].icon = "unchecked"

---------------------------------------------------------------------------
(* C21 *)

\* a part_000 upsert that succeeds leaves one record of the user for the
\* store's current date, holding the generated text of the call and the
\* tasks parsed from it, none done
UpsertStoresTextAndFreshTasks ==
    \A p \in Procs :
        (/\ impl = "part"
         /\ procs[p].pc = "plan_upsert"
         /\ procs'[p].pc = "plan_send")
            => LET rows == SelectDaily(daily', procs[p].planUser,
                                       CurrentDate(now, dbOff))
               IN  /\ Len(rows) = 1
                   /\ rows[1].content = procs[p].genText
                   /\ ~rows[1].tasksNull
                   /\ rows[1].tasks = ParseTasks(procs[p].genText)
                   /\ \A i \in DOMAIN rows[1].tasks : ~rows[1].tasks[i].done

\* C21: when generateAndSendDailyPlan completes its upsert, today's record
\* of the user holds the raw generated text of that run and the task list
\* parsed from it with every done flag false, whatever record was stored
\* for that day before.
C21_UpsertReplacesTextAndTasks == [][UpsertStoresTextAndFreshTasks]_vars

\* an upsert has replaced a record that had a task marked done, by a text
\* with a line that is no task
C21_DoneRecordReplaced ==
    \E p \in Procs :
        /\ procs[p].pc = "plan_send"
        /\ procs[p].overwrote
        /\ procs[p].metDone
        /\ procs[p].genText = TwoTasks
        /\ Len(procs[p].tasksArray) = 2

---------------------------------------------------------------------------
(* C22 *)

\* the lines of the text that carry an ordinal, in the order of the text
NumberedLines(t) ==
    SelectSeq(SplitLines(t), LAMBDA l : LineMatches(CleanLine(l)))

\* C22: the parsed list has one task per numbered line, in the order of the
\* lines, each with the ordinal written on its line: nothing is renumbered,
\* dropped as a duplicate or sorted.
C22_OrdinalsAndOrderKept ==
    pdone =>
        LET ls == NumberedLines(text)
        IN  /\ Len(parsed) = Len(ls)
            /\ \A i \in DOMAIN ls :
                  parsed[i].id = ParseInt(MatchDigits(CleanLine(ls[i])))

\* a text whose second numbered line carries a smaller ordinal than its
\* first has been parsed
C22_OutOfOrderParsed ==
    /\ pdone
    /\ Len(parsed) = 2
    /\ parsed[1].id = 2
    /\ parsed[2].id = 1

---------------------------------------------------------------------------
(* C23 *)

\* the state of every chat is one of the three
TalkStatesOK ==
    \A c \in Chats :
        userStates[c].state
            \in {"idle", "awaiting_deadline", "awaiting_multiple_goals"}

\* a message read in Idle, or one that starts with '/', has inserted no goal
\* and its handler has not gone on
NoInsertWithoutAnswer ==
    \A p \in Procs :
        LET r == procs[p] IN
        (r.kind = "message"
            /\ (r.recv.state = "idle"
                   \/ (r.msgText # <<>> /\ r.msgText[1] = "/")))
            => (r.inserts = 0 /\ r.pc = "done" /\ r.entries = <<>>)

\* the transitions: /addgoal ends in awaiting_deadline with its text,
\* /addmany in awaiting_multiple_goals, an answer ends in Idle; goals are
\* inserted by the handler of an answer only
TalkTransitions ==
    /\ \A p \in Procs :
          LET r == procs[p] IN
          /\ (r.pc = "addgoal_register" /\ procs'[p].pc = "done")
                => /\ userStates'[r.chat].state = "awaiting_deadline"
                   /\ userStates'[r.chat].tempGoal = r.goalText
          /\ (r = Idle /\ procs'[p].kind = "addmany")
                => userStates'[procs'[p].chat].state
                       = "awaiting_multiple_goals"
          /\ (r.kind = "message" /\ r.pc # "done" /\ procs'[p].pc = "done")
                => userStates'[r.chat] = NoState
    /\ goals' # goals
          => \E p \in Procs :
                /\ procs[p].kind = "message"
                /\ procs[p].recv.state # "idle"
                /\ procs'[p].inserts = procs[p].inserts + 1

\* C23: the state of a chat is always Idle, awaiting_deadline or
\* awaiting_multiple_goals; /addgoal <text> moves it to awaiting_deadline
\* and /addmany to awaiting_multiple_goals; the handler of a text that is no
\* command, received in a pending state, always ends, and ends with the
\* chat in Idle, whether its inserts succeeded or failed; a text received
\* in Idle and a text starting with '/' insert no goal.
C23_ConversationStateMachine ==
    /\ [](TalkStatesOK /\ NoInsertWithoutAnswer)
    /\ [][TalkTransitions]_vars
    /\ \A p \in Procs :
          (procs[p].kind = "message" /\ procs[p].pc # "done")
              ~> (procs[p].pc = "done")

\* the answer to /addmany has ended with its second insert failed, and the
\* chat is in Idle
C23_AnswerFailedBackToIdle ==
    \E p \in Procs :
        /\ procs[p].kind = "message"
        /\ procs[p].pc = "done"
        /\ procs[p].recv.state = "awaiting_multiple_goals"
        /\ procs[p].failed
        /\ procs[p].inserts = 1
        /\ userStates[procs[p].chat] = NoState

---------------------------------------------------------------------------
(* C24 *)

\* C24: no two goal rows come from the same /addgoal command, also when two
\* answers of the chat are handled at the same time.
C24_OneGoalPerAddGoal ==
    \A i, j \in DOMAIN goals :
        (i # j /\ goals[i].cmd # 0) => goals[i].cmd # goals[j].cmd

---------------------------------------------------------------------------
(* C25 *)

\* C25: in every state the stored task list of a record has the ids and
\* the texts of the tasks parsed from the record's stored content, also
\* after a check_task toggle that read the list before an upsert for the
\* same user and day and wrote it after.
C25_TasksMatchContent ==
    \A i \in DOMAIN daily :
        ~daily[i].tasksNull
            => TaskShape(daily[i].tasks)
                   = TaskShape(ParseTasks(daily[i].content))

---------------------------------------------------------------------------
(* C26 *)

\* C26: in a firing of the reminder scheduler of part_000 every chat a
\* reminder is sent to belongs to a user who owns a goal, and no chat is
\* sent two reminders, however many goals its user owns.
C26_RemindersOnlyToGoalOwnersOnce ==
    LET r == procs[1] IN
    (impl = "part" /\ r.kind = "remind")
        => /\ \A i \in DOMAIN r.attempted :
                 \E u \in users : \E g \in DOMAIN goals :
                     /\ u.chat_id = r.attempted[i]
                     /\ goals[g].user_id = u.id
           /\ \A i, j \in DOMAIN r.attempted :
                 i # j => r.attempted[i] # r.attempted[j]

\* a firing has ended with one reminder sent, to the chat of the user who
\* owns two goals, and none to the registered chat whose user owns none
C26_OwnerOfTwoRemindedOnce ==
    LET r == procs[1] IN
    /\ impl = "part"
    /\ r.kind = "remind"
    /\ r.pc = "done"
    /\ goals = GoalsOfOne
    /\ r.attempted = <<101>>
    /\ r.reminded = <<101>>

---------------------------------------------------------------------------
(* C27 *)

\* C27: the handler of a button click from a registered chat does not end
\* without having called answerCallbackQuery, whatever the click met: a
\* toggle, a stale or unknown ordinal, or a store failure.
C27_ClickAcknowledged ==
    \A p \in Procs :
        LET r == procs[p] IN
        (/\ r.kind \in {"click", "delete_goal"}
         /\ r.pc = "done"
         /\ \E u \in users : u.chat_id = r.chat)
            => r.acked

=============================================================================
